---- MODULE Spec2Model ----
(***************************************************************************)
(* The bulk-transform pipeline of stacforge: the durable orchestration     *)
(* geotemplate_bulk_transform, the crawler activities, the per-scene       *)
(* transform activity and the collection-build activity, over one output   *)
(* container.  The orchestrator is modelled as its logical execution: one  *)
(* action per code segment between two yields.  Activities run on their    *)
(* own workers, one action per invocation, in any order.                   *)
(***************************************************************************)
EXTENDS Integers, Sequences, FiniteSets, TLC

\* ---------------------------------------------------------------- bounds
MaxScenes == 3

\* ------------------------------------------------------------- constants
Null == "null"
Instance == "run1"
OtherInstance == "run0"

CrawlingTypes == {"file", "index"}
FILE_CRAWLER_ACTIVITY_NAME == "file_crawler"
INDEX_CRAWLER_ACTIVITY_NAME == "index_crawler"

\* Exception messages are sequences of lines.
MsgNoInput == <<"No input provided">>
MsgBadEnum == <<"'other' is not a valid CrawlingType">>
MsgIndexMissing == <<"index_file must be provided for index crawling">>
MsgPatternGiven == <<"pattern must not be provided for index crawling">>
MsgIndexGiven == <<"index_file must not be provided for non-index crawling">>
MsgCrawlFiles == <<"Error crawling files">>
MsgCrawlIndex == <<"Error crawling index">>
MsgCreateCollection == <<"Error creating collection">>
\* What installing the logging scope can raise: the handler's own
\* ValueError, or an HTTP error of create_table_if_not_exists.
LoggingErrors ==
    { <<"No logs storage account configured">>,
      <<"Operation returned an invalid status 'Forbidden'", "ErrorCode:AuthorizationFailure">> }
\* What a storage call raises once its retries are exhausted or declined.
StorageErrors ==
    { <<"This request is not authorized to perform this operation.", "ErrorCode:AuthorizationFailure">> }

\* The orchestration inputs: no input at all, or a dictionary.
NoInput == [missing |-> TRUE]
Inputs ==
    {NoInput} \cup
    [crawling_type : CrawlingTypes \cup {"other"},
     pattern : {Null, "*.tif"},
     index_file_path : {Null, "index.txt"}]

VARIABLES
    input,        \* context.get_input()
    pc,           \* position of the orchestrator generator
    statusLog,    \* every value passed to context.set_custom_status, in order
    output,       \* the orchestrator's return value
    calls,        \* the names passed to context.call_activity, in order
    crawler,      \* the crawler activity called by the run
    scenes,       \* the crawler's result
    tasks,        \* the transform activities of the fan-out
    finished,     \* the invocation ids of the transforms, in order of completion
    build,        \* the create_collection activity
    store,        \* the item blobs of the export container
    collection,   \* the collection.json document of the run
    \* --- one gateway operation under retry_transient_errors
    answers,      \* the status codes the service answers with, attempt by attempt
    attempts,     \* the attempts made so far
    retry,        \* the state of the retrying call
    \* --- GeoCatalogClient.bulk_ingest_stac_collection against one catalog
    now,          \* datetime.now(UTC), in minutes
    sources,      \* the ingestion source records of the catalog
    requests,     \* the requests of the current call, in order
    bpc,          \* position of the current call
    target,       \* container_url of the current call
    found,        \* ingestion_sources, the map built by get_ingestion_sources
    cursor,       \* the record get_ingestion_sources is at
    outcome,      \* what the current call returned or raised
    ncalls,       \* the calls made so far
    \* --- GeoCatalogClient._get_spatio_bearer_token
    clock,        \* datetime.now(), in minutes
    access_token, \* self._access_token
    callers,      \* the coroutines that send requests through one client
    \* --- Environment
    blobs,        \* the version of the template source stored at each URL
    cache,        \* the templates held by the jinja2 environment, by name
    bytecode,     \* the buckets of the bytecode cache
    enable_cache, \* the argument of Environment()
    history,      \* the operations on the environment, in order
    \* --- GeoTemplate.render_text, render_json and render_stac
    evaluation,   \* what evaluating the template on the scene does
    rendered,     \* the text the template renders
    validate,     \* the argument of render_stac
    rendering,    \* what the call returned or raised
    \* --- the index crawler activity
    index_file,   \* the characters of the index file
    ignore_lines_starting_with, \* input.ignore_lines_starting_with
    is_ndjson,    \* input.is_ndjson
    crawl,        \* what the activity returned or raised
    \* --- the replays of the orchestrator
    plan,         \* what the input and the activities of the run are like
    events,       \* the completions in the history of the instance
    opc,          \* position of the orchestrator in the current episode
    is_replaying, \* context.is_replaying
    emitted,      \* the records the orchestrator handed to the logger
    \* --- logging_context and the AzureStorageTableHandler behind it
    handlers,     \* the handlers of the 'stacforge' logger
    scope,        \* the logging scope that is open
    queue,        \* the records waiting in the queue of the open scope
    listener,     \* the thread of the QueueListener of the open scope
    table,        \* the records upserted to the table
    stderr,       \* the records reported on stderr
    logged,       \* the records logged so far
    \* --- the transform activity, several invocations in one worker
    invs,         \* the invocations of _geotemplate_transform
    exported      \* the writes to the export container

\* ---------------------------------------------------- further components
VARIABLES
    \* --- StorageClient.list_blobs over one container
    blob_names,           \* the names of the blobs of the container
    glob_pattern,         \* the pattern argument
    listed_blobs,         \* what the call returned or raised
    \* --- concurrent calls of create_or_update_ingestion_source
    expiration_hours,     \* MIN_ and DEFAULT_SAS_TOKEN_EXPIRATION_HOURS of the environment
    list_shape,           \* the shape of the answer to the list of ingestion sources
    catalog_sources,      \* the ingestion sources the catalog holds
    ensurers,             \* the calls of create_or_update_ingestion_source
    traffic,              \* the requests made and the credentials minted, in order
    \* --- the registries of the engine and the Environment instances
    GeoTemplateFilters,   \* the names in the module's dictionary of filters
    GeoTemplateFunctions, \* the names in the module's dictionary of functions
    GeoTemplateTests,     \* the names in the module's dictionary of tests
    GeoTemplateGlobals,   \* the names in the module's dictionary of global variables
    environments,         \* the Environment instances constructed, in order
    \* --- storage scopes entered concurrently on one container
    container_present,    \* whether the container exists in the account
    enterers,             \* the StorageClient scopes being entered
    \* --- logging scopes open at the same time in one process
    open_scopes,          \* the logging_context scopes of the process
    logger_handlers,      \* the scopes whose QueueHandler is on the 'stacforge' logger
    logged_records,       \* the records logged, with the scope whose code logged them
    table_rows,           \* the rows of the table of logs
    \* --- one run of the ingestion troubleshooter
    args,                 \* the command line: keep_artifacts, container and collection given or not
    world,                \* the container, the collection and the dummy data, with who made them
    cleanup_info,         \* what the run noted down as its own
    main                  \* the position of main and its two existed_before locals

globVars == <<blob_names, glob_pattern, listed_blobs>>
ensureVars == <<expiration_hours, list_shape, catalog_sources, ensurers, traffic>>
registryVars == <<GeoTemplateFilters, GeoTemplateFunctions, GeoTemplateTests, GeoTemplateGlobals, environments>>
containerVars == <<container_present, enterers>>
scopesVars == <<open_scopes, logger_handlers, logged_records, table_rows>>
cleanupVars == <<args, world, cleanup_info, main>>

laterVars == <<globVars, ensureVars, registryVars, containerVars, scopesVars, cleanupVars>>

otherGlobVars == <<ensureVars, registryVars, containerVars, scopesVars, cleanupVars>>
otherEnsureVars == <<globVars, registryVars, containerVars, scopesVars, cleanupVars>>
otherRegistryVars == <<globVars, ensureVars, containerVars, scopesVars, cleanupVars>>
otherContainerVars == <<globVars, ensureVars, registryVars, scopesVars, cleanupVars>>
otherScopesVars == <<globVars, ensureVars, registryVars, containerVars, cleanupVars>>
otherCleanupVars == <<globVars, ensureVars, registryVars, containerVars, scopesVars>>

GlobIdle ==
    /\ blob_names = {}
    /\ glob_pattern = <<>>
    /\ listed_blobs = [state |-> "off", blobs |-> {}]

EnsureIdle ==
    /\ expiration_hours = [min |-> 12, default |-> 24]
    /\ list_shape = "list"
    /\ catalog_sources = <<>>
    /\ ensurers = <<>>
    /\ traffic = <<>>

RegistryIdle ==
    /\ GeoTemplateFilters = {"bbox"}
    /\ GeoTemplateFunctions = {"now"}
    /\ GeoTemplateTests = {"contains"}
    /\ GeoTemplateGlobals = {"RE_NOFLAG"}
    /\ environments = <<>>

ContainerIdle ==
    /\ container_present = FALSE
    /\ enterers = <<>>

ScopesIdle ==
    /\ open_scopes = <<>>
    /\ logger_handlers = {}
    /\ logged_records = {}
    /\ table_rows = {}

CleanupIdle ==
    /\ args = [keep_artifacts |-> FALSE, container |-> FALSE, collection |-> FALSE]
    /\ world = [container |-> "missing", collection |-> "missing", dummy |-> "none"]
    /\ cleanup_info = [container_created |-> FALSE, collection_created |-> FALSE, dummy_created |-> FALSE]
    /\ main = [pc |-> "off", container_existed_before |-> FALSE, collection_existed_before |-> FALSE]

OtherGlobIdle ==
    /\ EnsureIdle
    /\ RegistryIdle
    /\ ContainerIdle
    /\ ScopesIdle
    /\ CleanupIdle

OtherEnsureIdle ==
    /\ GlobIdle
    /\ RegistryIdle
    /\ ContainerIdle
    /\ ScopesIdle
    /\ CleanupIdle

OtherRegistryIdle ==
    /\ GlobIdle
    /\ EnsureIdle
    /\ ContainerIdle
    /\ ScopesIdle
    /\ CleanupIdle

OtherContainerIdle ==
    /\ GlobIdle
    /\ EnsureIdle
    /\ RegistryIdle
    /\ ScopesIdle
    /\ CleanupIdle

OtherScopesIdle ==
    /\ GlobIdle
    /\ EnsureIdle
    /\ RegistryIdle
    /\ ContainerIdle
    /\ CleanupIdle

OtherCleanupIdle ==
    /\ GlobIdle
    /\ EnsureIdle
    /\ RegistryIdle
    /\ ContainerIdle
    /\ ScopesIdle

LaterIdle ==
    /\ GlobIdle
    /\ EnsureIdle
    /\ RegistryIdle
    /\ ContainerIdle
    /\ ScopesIdle
    /\ CleanupIdle

\* --------------------------------------------- end of further components

pipelineVars == <<input, pc, statusLog, output, calls, crawler, scenes, tasks, finished, build, store, collection>>
retryVars == <<answers, attempts, retry>>
catalogVars == <<now, sources, requests, bpc, target, found, cursor, outcome, ncalls>>
tokenVars == <<clock, access_token, callers>>
templateVars == <<blobs, cache, bytecode, enable_cache, history>>
renderVars == <<evaluation, rendered, validate, rendering>>
indexVars == <<index_file, ignore_lines_starting_with, is_ndjson, crawl>>
replayVars == <<plan, events, opc, is_replaying, emitted>>
loggingVars == <<handlers, scope, queue, listener, table, stderr, logged>>
transformVars == <<invs, exported>>

vars == <<pipelineVars, retryVars, catalogVars, tokenVars, templateVars, renderVars, indexVars, replayVars, loggingVars, transformVars, laterVars>>

\* What the actions of one component leave alone.
nonPipelineVars ==
    <<retryVars, catalogVars, tokenVars, templateVars, renderVars, indexVars, replayVars, loggingVars, transformVars, laterVars>>
nonRetryVars ==
    <<pipelineVars, catalogVars, tokenVars, templateVars, renderVars, indexVars, replayVars, loggingVars, transformVars, laterVars>>
nonCatalogVars ==
    <<pipelineVars, retryVars, tokenVars, templateVars, renderVars, indexVars, replayVars, loggingVars, transformVars, laterVars>>
nonTokenVars ==
    <<pipelineVars, retryVars, catalogVars, templateVars, renderVars, indexVars, replayVars, loggingVars, transformVars, laterVars>>
nonTemplateVars ==
    <<pipelineVars, retryVars, catalogVars, tokenVars, renderVars, indexVars, replayVars, loggingVars, transformVars, laterVars>>
nonRenderVars ==
    <<pipelineVars, retryVars, catalogVars, tokenVars, templateVars, indexVars, replayVars, loggingVars, transformVars, laterVars>>
nonIndexVars ==
    <<pipelineVars, retryVars, catalogVars, tokenVars, templateVars, renderVars, replayVars, loggingVars, transformVars, laterVars>>
nonReplayVars ==
    <<pipelineVars, retryVars, catalogVars, tokenVars, templateVars, renderVars, indexVars, loggingVars, transformVars, laterVars>>
nonLoggingVars ==
    <<pipelineVars, retryVars, catalogVars, tokenVars, templateVars, renderVars, indexVars, replayVars, transformVars, laterVars>>
nonTransformVars ==
    <<pipelineVars, retryVars, catalogVars, tokenVars, templateVars, renderVars, indexVars, replayVars, loggingVars, laterVars>>

MaxCallers == 2
Callers == 1..MaxCallers

TemplateUrls == {"a.j2", "b.j2"}

NoOutcome == [state |-> "none", error |-> "", ingestion_id |-> 0, run_id |-> 0]
NoToken == [cached |-> FALSE, expires_on |-> 0]
NoCaller == [state |-> "idle", cached |-> FALSE, expires_on |-> 0, at |-> 0]

\* -------------------------------------------------------------- helpers
\* str(e).split("\n")[0].rstrip()
FirstLine(msg) == IF msg = <<>> THEN "" ELSE msg[1]

Last(s) == s[Len(s)]

custom_status == IF statusLog = <<>> THEN Null ELSE Last(statusLog)

ItemBlob(dir, id) == [dir |-> dir, kind |-> "items", id |-> id]
CollectionBlob(dir) == [dir |-> dir, kind |-> "collection", id |-> 0]

NoBlob == [dir |-> Null, kind |-> Null, id |-> 0]

NoActivity == [name |-> Null, state |-> "none", msg |-> <<>>, cause |-> "none"]
Scheduled(name) == [name |-> name, state |-> "scheduled", msg |-> <<>>, cause |-> "none"]
Returned(a) == [a EXCEPT !.state = "returned"]
Raised(a, msg) == [a EXCEPT !.state = "raised", !.msg = msg]

NoBuild == [state |-> "none", base_dir |-> Null, msg |-> <<>>, url |-> NoBlob]

NoOutput == [none |-> TRUE]
NoError == [raised |-> FALSE, msg |-> <<>>]
Error(msg) == [raised |-> TRUE, msg |-> msg]

\* ------------------------------------------------- orchestration input
\* StaticCatalogIngestionOrchestrationInfo.from_dict: the crawling type
\* must decode to a member of the CrawlingType enumeration.
FromDict(d) ==
    IF d.crawling_type \in CrawlingTypes THEN NoError ELSE Error(MsgBadEnum)

\* A check that forgets the pattern of an index crawl.
CheckCrawlingOptionsNoPattern(info) ==
    IF info.crawling_type = "index"
    THEN IF info.index_file_path = Null THEN Error(MsgIndexMissing) ELSE NoError
    ELSE IF info.index_file_path # Null THEN Error(MsgIndexGiven)
         ELSE NoError

CheckCrawlingOptions(info) ==
    IF info.crawling_type = "index"
    THEN IF info.index_file_path = Null THEN Error(MsgIndexMissing)
         ELSE IF info.pattern # Null THEN Error(MsgPatternGiven)
         ELSE NoError
    ELSE IF info.index_file_path # Null THEN Error(MsgIndexGiven)
         ELSE NoError

\* Lines 78-85 of the orchestrator: the exception they raise, if any.
InputError(in) ==
    IF "missing" \in DOMAIN in THEN Error(MsgNoInput)
    ELSE IF FromDict(in).raised THEN FromDict(in)
    ELSE CheckCrawlingOptions(in)

\* Lines 89-113 of the orchestrator.
CrawlerName(info) ==
    IF info.crawling_type = "file" THEN FILE_CRAWLER_ACTIVITY_NAME
    ELSE INDEX_CRAWLER_ACTIVITY_NAME

\* No gateway operation is under way.
RetryIdle ==
    /\ answers = <<>>
    /\ attempts = 0
    /\ retry = [state |-> "idle", status |-> 0]

\* No call of the catalog client is under way.
CatalogIdle ==
    /\ now = 0
    /\ sources = <<>>
    /\ requests = <<>>
    /\ bpc = "off"
    /\ target = ""
    /\ found = {}
    /\ cursor = 0
    /\ outcome = NoOutcome
    /\ ncalls = 0

\* No coroutine asks for the bearer token.
TokenIdle ==
    /\ clock = 0
    /\ access_token = NoToken
    /\ callers = [c \in Callers |-> [state |-> "off", cached |-> FALSE, expires_on |-> 0, at |-> 0]]

\* No environment has been constructed.
TemplatesIdle ==
    /\ blobs = [u \in TemplateUrls |-> 0]
    /\ cache = [u \in TemplateUrls |-> 0]
    /\ bytecode = [u \in TemplateUrls |-> 0]
    /\ enable_cache = FALSE
    /\ history = <<>>

\* No template is being rendered.
RenderIdle ==
    /\ evaluation = "ok"
    /\ rendered = "item"
    /\ validate = FALSE
    /\ rendering = [method |-> "none", state |-> "off", error |-> "", validated |-> FALSE]

\* No index is being crawled.
IndexIdle ==
    /\ index_file = <<>>
    /\ ignore_lines_starting_with = [is_none |-> TRUE, chars |-> <<>>]
    /\ is_ndjson = FALSE
    /\ crawl = [state |-> "off", error |-> "", scenes |-> <<>>]

\* No orchestrator is being replayed.
ReplayIdle ==
    /\ plan = [input |-> "none", crawl |-> "none", fan |-> <<>>, create |-> "none"]
    /\ events = <<>>
    /\ opc = "off"
    /\ is_replaying = FALSE
    /\ emitted = <<>>

\* No logging scope has been opened.
LoggingIdle ==
    /\ handlers = {}
    /\ scope = [id |-> 0, state |-> "off"]
    /\ queue = <<>>
    /\ listener = "off"
    /\ table = {}
    /\ stderr = {}
    /\ logged = {}

\* No transform activity has been invoked.
TransformIdle ==
    /\ invs = <<>>
    /\ exported = {}

\* ----------------------------------------------------------------- Init
Init ==
    /\ input \in Inputs
    /\ pc = "init"
    /\ statusLog = <<>>
    /\ output = NoOutput
    /\ calls = <<>>
    /\ crawler = NoActivity
    /\ scenes = <<>>
    /\ tasks = <<>>
    /\ finished = <<>>
    /\ build = NoBuild
    /\ store \in {{}, {ItemBlob(OtherInstance, 1)}}
    /\ collection = [exists |-> FALSE, links |-> {}]
    /\ RetryIdle
    /\ CatalogIdle
    /\ TokenIdle
    /\ TemplatesIdle
    /\ RenderIdle
    /\ IndexIdle
    /\ ReplayIdle
    /\ LoggingIdle
    /\ TransformIdle
    /\ LaterIdle

\* ------------------------------------------------------- the orchestrator
SetStatus(log, status) == Append(log, status)

\* The except clause of the orchestrator (lines 187-195), entered with the
\* statuses set so far.
Fail(log, msg) ==
    /\ statusLog' = SetStatus(log, "Failed")
    /\ output' = [error |-> FirstLine(msg)]
    /\ pc' = "done"

\* logging_context is entered outside the try (line 49): what it raises
\* leaves the generator.
OrchestratorLoggingFail ==
    /\ pc = "init"
    /\ \E msg \in LoggingErrors : output' = [raised |-> msg]
    /\ pc' = "raised"
    /\ UNCHANGED <<input, statusLog, calls, crawler, scenes, tasks, finished, build, store, collection>>
    /\ UNCHANGED nonPipelineVars

\* A start that calls the crawler without announcing it.
StartNoCrawlingStatus ==
    /\ pc = "init"
    /\ LET log == SetStatus(statusLog, "Initializing")
           err == InputError(input)
       IN  IF err.raised
           THEN /\ Fail(log, err.msg)
                /\ UNCHANGED <<calls, crawler>>
           ELSE /\ statusLog' = log
                /\ calls' = Append(calls, CrawlerName(input))
                /\ crawler' = Scheduled(CrawlerName(input))
                /\ pc' = "crawling"
                /\ UNCHANGED output
    /\ UNCHANGED <<input, scenes, tasks, finished, build, store, collection>>
    /\ UNCHANGED nonPipelineVars

\* Lines 70-121: up to the yield of the crawler activity.
Start ==
    /\ pc = "init"
    /\ LET log == SetStatus(statusLog, "Initializing")
           err == InputError(input)
       IN  IF err.raised
           THEN /\ Fail(log, err.msg)
                /\ UNCHANGED <<calls, crawler>>
           ELSE /\ statusLog' = SetStatus(log, "Crawling")
                /\ calls' = Append(calls, CrawlerName(input))
                /\ crawler' = Scheduled(CrawlerName(input))
                /\ pc' = "crawling"
                /\ UNCHANGED output
    /\ UNCHANGED <<input, scenes, tasks, finished, build, store, collection>>
    /\ UNCHANGED nonPipelineVars

\* ------------------------------------------------- the crawler activities
\* Where a crawler invocation can fail: installing the logging scope,
\* which is outside the try, the storage scope and its call, or nowhere.
CrawlFailPoints == {"logging", "storage", "none"}

\* A file crawler that lets the storage error through unwrapped.
FileCrawlerErrorUnwrapped(failAt, logmsg, stmsg) ==
    IF failAt = "logging" THEN logmsg ELSE stmsg

\* _file_crawler: any error of the storage scope or of list_blobs becomes
\* CrawlingError("Error crawling files").
FileCrawlerError(failAt, logmsg, stmsg) ==
    IF failAt = "logging" THEN logmsg ELSE MsgCrawlFiles

\* _index_crawler: any error of the download or of the parsing becomes
\* CrawlingError("Error crawling index").
IndexCrawlerError(failAt, logmsg, stmsg) ==
    IF failAt = "logging" THEN logmsg ELSE MsgCrawlIndex

FileCrawler ==
    /\ crawler.state = "scheduled"
    /\ crawler.name = FILE_CRAWLER_ACTIVITY_NAME
    /\ \E failAt \in CrawlFailPoints, logmsg \in LoggingErrors, stmsg \in StorageErrors,
          n \in 0..MaxScenes :
          /\ failAt # "logging" => logmsg = <<"No logs storage account configured">>
          /\ failAt # "none" => n = 0
          /\ IF failAt = "none"
             THEN /\ crawler' = Returned(crawler)
                  /\ scenes' = [i \in 1..n |-> i]
             ELSE /\ crawler' = [Raised(crawler, FileCrawlerError(failAt, logmsg, stmsg))
                                   EXCEPT !.cause = failAt]
                  /\ UNCHANGED scenes
    /\ UNCHANGED <<input, pc, statusLog, output, calls, tasks, finished, build, store, collection>>
    /\ UNCHANGED nonPipelineVars

IndexCrawler ==
    /\ crawler.state = "scheduled"
    /\ crawler.name = INDEX_CRAWLER_ACTIVITY_NAME
    /\ \E failAt \in CrawlFailPoints, logmsg \in LoggingErrors, stmsg \in StorageErrors,
          n \in 0..MaxScenes :
          /\ failAt # "logging" => logmsg = <<"No logs storage account configured">>
          /\ failAt # "none" => n = 0
          /\ IF failAt = "none"
             THEN /\ crawler' = Returned(crawler)
                  /\ scenes' = [i \in 1..n |-> i]
             ELSE /\ crawler' = [Raised(crawler, IndexCrawlerError(failAt, logmsg, stmsg))
                                   EXCEPT !.cause = failAt]
                  /\ UNCHANGED scenes
    /\ UNCHANGED <<input, pc, statusLog, output, calls, tasks, finished, build, store, collection>>
    /\ UNCHANGED nonPipelineVars

\* The yield of line 118 raises what the crawler activity raised.
CrawlerRaised ==
    /\ pc = "crawling"
    /\ crawler.state = "raised"
    /\ Fail(statusLog, crawler.msg)
    /\ UNCHANGED <<input, calls, crawler, scenes, tasks, finished, build, store, collection>>
    /\ UNCHANGED nonPipelineVars

\* One call_activity("geotemplate_transform") per scene (lines 132-145).
\* The invocation id of the i-th task is i.
ScheduleTransforms(ss) ==
    [i \in 1..Len(ss) |->
        [scene |-> ss[i], items_path |-> Instance, id |-> i,
         state |-> "scheduled", result |-> FALSE, msg |-> <<>>]]

TransformCalls(ss) == [i \in 1..Len(ss) |-> "geotemplate_transform"]

\* A continuation that does not stop on an empty scene list.
AfterCrawlNoEmptyCheck ==
    /\ pc = "crawling"
    /\ crawler.state = "returned"
    /\ statusLog' = SetStatus(statusLog, "Transforming")
    /\ tasks' = ScheduleTransforms(scenes)
    /\ calls' = calls \o TransformCalls(scenes)
    /\ pc' = "transforming"
    /\ UNCHANGED output
    /\ UNCHANGED <<input, crawler, scenes, finished, build, store, collection>>
    /\ UNCHANGED nonPipelineVars

\* Lines 122-147: from the crawler's result to the yield of task_all.
AfterCrawl ==
    /\ pc = "crawling"
    /\ crawler.state = "returned"
    /\ IF Len(scenes) = 0
       THEN /\ statusLog' = SetStatus(statusLog, "Finished")
            /\ output' = <<>>
            /\ pc' = "done"
            /\ UNCHANGED <<calls, tasks>>
       ELSE /\ statusLog' = SetStatus(statusLog, "Transforming")
            /\ tasks' = ScheduleTransforms(scenes)
            /\ calls' = calls \o TransformCalls(scenes)
            /\ pc' = "transforming"
            /\ UNCHANGED output
    /\ UNCHANGED <<input, crawler, scenes, finished, build, store, collection>>
    /\ UNCHANGED nonPipelineVars

\* ------------------------------------------------ the transform activity
\* Where an invocation of _geotemplate_transform can fail: installing the
\* logging scope (line 36), get_geotemplate_from_storage (50), render_stac
\* (56), entering the export storage scope (69), upload_blob (70), leaving
\* the storage scope after the return of line 76, or nowhere.
TransformFailPoints ==
    {"logging", "template", "render", "storage_scope", "upload", "close", "none"}

\* Only the try of line 46 turns an exception into the result False.
TransformResult(t, failAt, msg) ==
    IF failAt = "logging"
    THEN [t EXCEPT !.state = "raised", !.msg = msg]
    ELSE [t EXCEPT !.state = "returned", !.result = (failAt = "none")]

\* An item path that leaves the invocation id out.
ItemPathOfRun(t) == ItemBlob(t.items_path, 0)

\* item_path = f"{input.items_path}/{context.invocation_id}.json"
ItemPath(t) == ItemBlob(t.items_path, t.id)

\* An upload that raises may or may not have been applied by the service;
\* an upload that returned has been applied.
GeotemplateTransform(i) ==
    /\ i \in DOMAIN tasks
    /\ tasks[i].state = "scheduled"
    /\ \E failAt \in TransformFailPoints, applied \in BOOLEAN, msg \in LoggingErrors :
          /\ failAt # "upload" => applied = (failAt \in {"close", "none"})
          /\ failAt # "logging" => msg = <<"No logs storage account configured">>
          /\ tasks' = [tasks EXCEPT ![i] = TransformResult(tasks[i], failAt, msg)]
          /\ store' = IF applied THEN store \cup {ItemPath(tasks[i])} ELSE store
          /\ finished' = Append(finished, tasks[i].id)
    /\ UNCHANGED <<input, pc, statusLog, output, calls, crawler, scenes, build, collection>>
    /\ UNCHANGED nonPipelineVars

\* ----------------------------------------------------------------- fan-in
Count(seq, v) == Cardinality({i \in DOMAIN seq : seq[i] = v})

Responses(ts) == [i \in DOMAIN ts |-> ts[i].result]

FailedCount(responses) == Count(responses, FALSE)
\* A count that takes every response for a success.
SuccessCountAll(responses) == Len(responses)

SuccessCount(responses) == Count(responses, TRUE)

\* A final status that ignores the failures.
FinalStatusAlwaysFinished(failed_count) == "Finished"

\* "Finished" if failed_count == 0 else "FinishedWithErrors"
FinalStatus(failed_count) ==
    IF failed_count = 0 THEN "Finished" ELSE "FinishedWithErrors"

\* A fan-in that resumes on the first response (task_any for task_all).
FanInAny ==
    /\ pc = "transforming"
    /\ \E i \in DOMAIN tasks : tasks[i].state = "returned"
    /\ LET responses == Responses(tasks)
           failed_count == FailedCount(responses)
           success_count == SuccessCount(responses)
       IN  IF success_count = 0
           THEN /\ statusLog' = SetStatus(statusLog, FinalStatus(failed_count))
                /\ output' = [warning |-> "No scenes transformed"]
                /\ pc' = "done"
                /\ UNCHANGED <<calls, build>>
           ELSE /\ statusLog' = SetStatus(statusLog, "CreatingCollection")
                /\ calls' = Append(calls, "create_collection")
                /\ build' = [NoBuild EXCEPT !.state = "scheduled", !.base_dir = Instance]
                /\ pc' = "creating"
                /\ UNCHANGED output
    /\ UNCHANGED <<input, crawler, scenes, tasks, finished, store, collection>>
    /\ UNCHANGED nonPipelineVars

\* A fan-in that builds the collection whatever the number of successes.
FanInNoZeroCheck ==
    /\ pc = "transforming"
    /\ \A i \in DOMAIN tasks : tasks[i].state = "returned"
    /\ statusLog' = SetStatus(statusLog, "CreatingCollection")
    /\ calls' = Append(calls, "create_collection")
    /\ build' = [NoBuild EXCEPT !.state = "scheduled", !.base_dir = Instance]
    /\ pc' = "creating"
    /\ UNCHANGED output
    /\ UNCHANGED <<input, crawler, scenes, tasks, finished, store, collection>>
    /\ UNCHANGED nonPipelineVars

\* Lines 147-175: task_all returned the responses of all the tasks.
FanIn ==
    /\ pc = "transforming"
    /\ \A i \in DOMAIN tasks : tasks[i].state = "returned"
    /\ LET responses == Responses(tasks)
           failed_count == FailedCount(responses)
           success_count == SuccessCount(responses)
       IN  IF success_count = 0
           THEN /\ statusLog' = SetStatus(statusLog, FinalStatus(failed_count))
                /\ output' = [warning |-> "No scenes transformed"]
                /\ pc' = "done"
                /\ UNCHANGED <<calls, build>>
           ELSE /\ statusLog' = SetStatus(statusLog, "CreatingCollection")
                /\ calls' = Append(calls, "create_collection")
                /\ build' = [NoBuild EXCEPT !.state = "scheduled", !.base_dir = Instance]
                /\ pc' = "creating"
                /\ UNCHANGED output
    /\ UNCHANGED <<input, crawler, scenes, tasks, finished, store, collection>>
    /\ UNCHANGED nonPipelineVars

\* task_all raises as soon as one of its tasks has raised.
FanInRaised ==
    /\ pc = "transforming"
    /\ \E i \in DOMAIN tasks :
          /\ tasks[i].state = "raised"
          /\ Fail(statusLog, tasks[i].msg)
    /\ UNCHANGED <<input, calls, crawler, scenes, tasks, finished, build, store, collection>>
    /\ UNCHANGED nonPipelineVars

\* ------------------------------------------- the collection-build activity
\* list_blobs(prefix=f"{base_dir}/items", pattern="*.json")
ListBlobs(st, base_dir) == {b \in st : b.dir = base_dir /\ b.kind = "items"}

\* One link per listed item.
Links(items) == items

BuildFailPoints == {"logging", "storage_scope", "list", "upload", "close", "none"}

\* Only the upload is inside the try that raises TransformationError.
BuildError(failAt, logmsg, stmsg) ==
    IF failAt = "logging" THEN logmsg
    ELSE IF failAt = "upload" THEN MsgCreateCollection
    ELSE stmsg

CreateCollection ==
    /\ build.state = "scheduled"
    /\ \E failAt \in BuildFailPoints, applied \in BOOLEAN,
          logmsg \in LoggingErrors, stmsg \in StorageErrors :
          /\ failAt # "upload" => applied = (failAt \in {"close", "none"})
          /\ failAt # "logging" => logmsg = <<"No logs storage account configured">>
          /\ build' = IF failAt = "none"
                      THEN [build EXCEPT !.state = "returned",
                                         !.url = CollectionBlob(build.base_dir)]
                      ELSE [build EXCEPT !.state = "raised",
                                         !.msg = BuildError(failAt, logmsg, stmsg)]
          /\ collection' = IF applied
                           THEN [exists |-> TRUE,
                                 links |-> Links(ListBlobs(store, build.base_dir))]
                           ELSE collection
    /\ UNCHANGED <<input, pc, statusLog, output, calls, crawler, scenes, tasks, finished, store>>
    /\ UNCHANGED nonPipelineVars

\* Lines 176-186: the positive result.
AfterCreate ==
    /\ pc = "creating"
    /\ build.state = "returned"
    /\ LET responses == Responses(tasks)
           failed_count == FailedCount(responses)
           success_count == SuccessCount(responses)
       IN  /\ statusLog' = SetStatus(statusLog, FinalStatus(failed_count))
           /\ output' = [collectionUrl |-> build.url,
                         totalItems |-> Len(scenes),
                         successCount |-> success_count,
                         failedCount |-> failed_count]
    /\ pc' = "done"
    /\ UNCHANGED <<input, calls, crawler, scenes, tasks, finished, build, store, collection>>
    /\ UNCHANGED nonPipelineVars

\* The yield of line 168 raises what create_collection raised.
CreateRaised ==
    /\ pc = "creating"
    /\ build.state = "raised"
    /\ Fail(statusLog, build.msg)
    /\ UNCHANGED <<input, calls, crawler, scenes, tasks, finished, build, store, collection>>
    /\ UNCHANGED nonPipelineVars

\* ------------------------------------------------------------------ Next
Next ==
    \/ OrchestratorLoggingFail
    \/ Start
    \/ FileCrawler
    \/ IndexCrawler
    \/ CrawlerRaised
    \/ AfterCrawl
    \/ \E i \in 1..MaxScenes : GeotemplateTransform(i)
    \/ FanIn
    \/ FanInRaised
    \/ CreateCollection
    \/ AfterCreate
    \/ CreateRaised

Spec == Init /\ [][Next]_vars

\* ================================================================ claims
NumTrue == Cardinality({i \in DOMAIN tasks : tasks[i].state = "returned" /\ tasks[i].result})
NumFalse == Cardinality({i \in DOMAIN tasks : tasks[i].state = "returned" /\ ~tasks[i].result})
NumCalls(names) == Cardinality({k \in DOMAIN calls : calls[k] \in names})
CrawlerNames == {FILE_CRAWLER_ACTIVITY_NAME, INDEX_CRAWLER_ACTIVITY_NAME}
PositiveResult == DOMAIN output = {"collectionUrl", "totalItems", "successCount", "failedCount"}

\* C1: a run that returns the positive result object has successCount +
\* failedCount = totalItems, totalItems is the number of scenes the crawler
\* returned, and exactly one transform activity was scheduled per scene.
FanOutTotals ==
    PositiveResult =>
        /\ output.successCount + output.failedCount = output.totalItems
        /\ output.totalItems = Len(scenes)
        /\ NumCalls({"geotemplate_transform"}) = Len(scenes)
        /\ \A k \in DOMAIN scenes :
              Cardinality({i \in DOMAIN tasks : tasks[i].scene = scenes[k]}) = 1

FanOutTotalsWitness ==
    /\ PositiveResult
    /\ output.successCount > 0
    /\ output.failedCount > 0

\* C2: whenever build_collection completes, the uploaded collection has as
\* many item links as the run has successes, and every href is an existing
\* blob written by a transform of the same run.
CollectionLinks ==
    build.state = "returned" =>
        /\ collection.exists
        /\ Cardinality(collection.links) = NumTrue
        /\ \A href \in collection.links :
              /\ href \in store
              /\ \E i \in DOMAIN tasks : href = ItemBlob(Instance, tasks[i].id)

\* C3: a transform invocation in which an exception occurs returns false: it
\* never raises, so no transform fails the fan-out.
TransformNeverRaises ==
    \A i \in DOMAIN tasks : tasks[i].state # "raised"

\* C4: a run in which build_collection completes ends with status Finished
\* if failedCount = 0 and FinishedWithErrors otherwise, and with an output
\* carrying collectionUrl, totalItems, successCount and failedCount.
BuildCompletedStatus ==
    (pc = "done" /\ build.state = "returned") =>
        /\ custom_status = IF NumFalse = 0 THEN "Finished" ELSE "FinishedWithErrors"
        /\ PositiveResult
        /\ output.collectionUrl = CollectionBlob(Instance)
        /\ output.totalItems = Len(scenes)
        /\ output.successCount = NumTrue
        /\ output.failedCount = NumFalse

BuildCompletedStatusWitness ==
    /\ pc = "done"
    /\ build.state = "returned"
    /\ NumFalse > 0
    /\ NumTrue > 0
    /\ custom_status = "FinishedWithErrors"

\* C5: when the crawler returns an empty scene list, the run returns {} with
\* status Finished and schedules no transform and no build_collection, so
\* that no collection blob is written.
EmptyCrawl ==
    (crawler.state = "returned" /\ Len(scenes) = 0) =>
        /\ NumCalls({"geotemplate_transform", "create_collection"}) = 0
        /\ Len(tasks) = 0
        /\ build.state = "none"
        /\ ~collection.exists
        /\ pc = "done" => (DOMAIN output = {} /\ custom_status = "Finished")

EmptyCrawlWitness ==
    /\ pc = "done"
    /\ crawler.state = "returned"
    /\ Len(scenes) = 0

PipelineOrder ==
    /\ Len(tasks) > 0 => crawler.state = "returned"
    /\ build.state # "none" =>
          \A i \in DOMAIN tasks : tasks[i].state = "returned"
    /\ \A j, k \in DOMAIN calls :
          /\ (calls[j] \in CrawlerNames /\ calls[k] \notin CrawlerNames) => j < k
          /\ (calls[j] # "create_collection" /\ calls[k] = "create_collection") => j < k

\* C7 as stated: every run calls exactly one crawler activity, and the
\* pipeline is ordered.
OneCrawlerInEveryRun ==
    /\ pc = "done" => NumCalls(CrawlerNames) = 1
    /\ PipelineOrder

\* C7, amended: a run calls at most one crawler activity, exactly one once
\* its input has passed validation (status Crawling) and none when it is
\* rejected before; the pipeline is ordered.
OneCrawlerOncePastValidation ==
    /\ NumCalls(CrawlerNames) =
          IF \E k \in DOMAIN statusLog : statusLog[k] = "Crawling" THEN 1 ELSE 0
    /\ pc = "done" =>
          (NumCalls(CrawlerNames) = 0 <=> statusLog = <<"Initializing", "Failed">>)
    /\ PipelineOrder

\* The fan-in of transforms that completed in another order than scheduled.
OneCrawlerOncePastValidationWitness ==
    /\ pc = "creating"
    /\ NumCalls(CrawlerNames) = 1
    /\ Len(tasks) >= 2
    /\ finished[1] = Len(tasks)

\* The crawling-mode precondition of the orchestration input.
ViolatesPrecondition(in) ==
    \/ "missing" \in DOMAIN in
    \/ /\ in.crawling_type = "file"
       /\ in.index_file_path # Null
    \/ /\ in.crawling_type = "index"
       /\ (in.index_file_path = Null \/ in.pattern # Null)

\* C8: for an input that violates the crawling-mode precondition, and for a
\* missing input, the run reports an input error (status Failed, output
\* {error}) and no activity is ever scheduled.
InputPrecondition ==
    ViolatesPrecondition(input) =>
        /\ calls = <<>>
        /\ crawler.state = "none"
        /\ Len(tasks) = 0
        /\ build.state = "none"
        /\ pc = "done" =>
              /\ statusLog = <<"Initializing", "Failed">>
              /\ DOMAIN output = {"error"}

InputPreconditionWitness ==
    /\ pc = "done"
    /\ "missing" \notin DOMAIN input
    /\ input.crawling_type = "index"
    /\ input.index_file_path # Null
    /\ input.pattern # Null
    /\ custom_status = "Failed"

NonTerminal == {"Initializing", "Crawling", "Transforming", "CreatingCollection"}

Published ==
    { <<"Initializing", "Crawling">>,
      <<"Crawling", "Transforming">>,
      <<"Crawling", "Finished">>,
      <<"Transforming", "CreatingCollection">>,
      <<"CreatingCollection", "Finished">>,
      <<"CreatingCollection", "FinishedWithErrors">> }
    \cup {<<st, "Failed">> : st \in NonTerminal}

IsPath(log, transitions) ==
    /\ log # <<>> => log[1] = "Initializing"
    /\ \A k \in 1..(Len(log) - 1) : <<log[k], log[k + 1]>> \in transitions

\* C9 as stated: the statuses set during a run form a path of the published
\* diagram, and none is set after a terminal one.
StatusPathPublished == IsPath(statusLog, Published)

\* C9, amended: the statuses set during a run form a path of the published
\* diagram extended with Transforming -> FinishedWithErrors, taken when no
\* scene was transformed; none is set after a terminal one.
StatusPathExtended ==
    IsPath(statusLog, Published \cup {<<"Transforming", "FinishedWithErrors">>})

StatusPathExtendedWitness ==
    statusLog = <<"Initializing", "Crawling", "Transforming", "FinishedWithErrors">>

\* C10: when the fan-in yields no success for a non-empty scene list, the
\* run returns {warning: "No scenes transformed"} with status Finished if
\* failedCount = 0 and FinishedWithErrors otherwise, and build_collection is
\* never scheduled.
NoSceneTransformed ==
    (/\ Len(tasks) > 0
     /\ \A i \in DOMAIN tasks : tasks[i].state = "returned"
     /\ NumTrue = 0) =>
        /\ build.state = "none"
        /\ NumCalls({"create_collection"}) = 0
        /\ ~collection.exists
        /\ pc = "done" =>
              /\ DOMAIN output = {"warning"}
              /\ output.warning = "No scenes transformed"
              /\ custom_status = IF NumFalse = 0 THEN "Finished" ELSE "FinishedWithErrors"

NoSceneTransformedWitness ==
    /\ pc = "done"
    /\ Len(tasks) > 1
    /\ NumTrue = 0
    /\ NumFalse = Len(tasks)
    /\ DOMAIN output = {"warning"}

\* C11: the orchestrator never terminates by raising: every run that ends
\* has returned, with a status among Finished, FinishedWithErrors and
\* Failed, and its output is an error object exactly when the status is
\* Failed.
OrchestratorNeverRaises ==
    /\ pc # "raised"
    /\ pc = "done" =>
          /\ custom_status \in {"Finished", "FinishedWithErrors", "Failed"}
          /\ (DOMAIN output = {"error"}) <=> (custom_status = "Failed")

\* ============================================== the retry of a gateway call
\* No run of the pipeline is under way.
PipelineIdle ==
    /\ input = NoInput
    /\ pc = "idle"
    /\ statusLog = <<>>
    /\ output = NoOutput
    /\ calls = <<>>
    /\ crawler = NoActivity
    /\ scenes = <<>>
    /\ tasks = <<>>
    /\ finished = <<>>
    /\ build = NoBuild
    /\ store = {}
    /\ collection = [exists |-> FALSE, links |-> {}]

MaxAnswers == 5

RETRIES == 3

\* The answers of the service; 0 stands for an error that is no
\* HttpResponseError or has no status code, such as the ValueError of a
\* read-only client.
StatusCodes == {0, 200, 400, 408, 429, 500}

\* The retry predicate of retry_transient_errors.
IsTransient(status) == status # 0 /\ (status >= 500 \/ status \in {408, 429})

\* A stop that counts the retries, not the attempts.
StopAfterRetries(attempt_number) == attempt_number > RETRIES

\* stop_after_attempt(RETRIES)
StopAfterAttempt(attempt_number) == attempt_number >= RETRIES

\* The answer to the n-th attempt; a service with nothing more to say is
\* healthy.
Answer(script, n) == IF n <= Len(script) THEN script[n] ELSE 200

Seqs(S, n) == UNION {[1..k -> S] : k \in 0..n}

RetryInit ==
    /\ answers \in Seqs(StatusCodes, MaxAnswers)
    /\ attempts = 0
    /\ retry = [state |-> "running", status |-> 0]
    /\ PipelineIdle
    /\ CatalogIdle
    /\ TokenIdle
    /\ TemplatesIdle
    /\ RenderIdle
    /\ IndexIdle
    /\ ReplayIdle
    /\ LoggingIdle
    /\ TransformIdle
    /\ LaterIdle

\* One attempt of the wrapped call: it returns, or its error is raised when
\* it is not transient or when the attempts are used up (reraise=True), or
\* the call waits and tries again.
Attempt ==
    /\ retry.state = "running"
    /\ LET n == attempts + 1
           status == Answer(answers, n)
       IN  /\ attempts' = n
           /\ retry' = IF status = 200 THEN [state |-> "returned", status |-> status]
                       ELSE IF IsTransient(status) /\ ~StopAfterAttempt(n)
                            THEN [state |-> "running", status |-> status]
                            ELSE [state |-> "raised", status |-> status]
    /\ UNCHANGED answers
    /\ UNCHANGED nonRetryVars

RetryNext == Attempt

SpecRetry == RetryInit /\ [][RetryNext]_vars

\* C12: a gateway operation answered 408, 429, 500, 500 and then 200
\* completes in exactly 4 attempts; one answered 400 completes in exactly 1
\* attempt, with the error surfaced.
RetryEnvelope ==
    retry.state \in {"returned", "raised"} =>
        /\ answers = <<408, 429, 500, 500, 200>> =>
              (attempts = 4 /\ retry.state = "returned")
        /\ (Len(answers) >= 1 /\ answers[1] = 400) =>
              (attempts = 1 /\ retry = [state |-> "raised", status |-> 400])

\* C32: the retrying call ends within 3 attempts: it returns at the first
\* attempt that succeeds, raises the error of the third attempt when all
\* three failed with transient errors, and raises at once, whatever the
\* attempt, an error that is not transient.
RetryTerminates ==
    /\ attempts <= RETRIES
    /\ retry.state = "running" => attempts < RETRIES
    /\ \A k \in 1..(attempts - 1) : IsTransient(Answer(answers, k))
    /\ retry.state = "returned" => Answer(answers, attempts) = 200
    /\ retry.state = "raised" =>
          /\ retry.status = Answer(answers, attempts)
          /\ retry.status # 200
          /\ IsTransient(retry.status) => attempts = 3
    /\ (retry.state # "running" /\ ~IsTransient(Answer(answers, 1))) => attempts = 1

\* Two transient failures and a success have taken three attempts.
RetryTerminatesWitness ==
    /\ retry.state = "returned"
    /\ attempts = 3
    /\ Len(answers) >= 3
    /\ answers[1] = 408
    /\ answers[2] = 429
    /\ answers[3] = 200

\* ===================================== the ingestion sources of a catalog
MaxSources == 2
MaxCalls == 2
MaxNow == 1440

MIN_SAS_TOKEN_EXPIRATION_HOURS == 12
DEFAULT_SAS_TOKEN_EXPIRATION_HOURS == 24
SkewMinutes == 5

\* timedelta(hours=h), in minutes
Hours(h) == h * 60

\* collection_url, as the segments of its path under one storage account
CollectionUrls == {<<"in", "run", "collection.json">>, <<"out", "collection.json">>}

\* Lines 154-160: scheme, host and first path segment.
ContainerUrl(collection_url) == collection_url[1]

NoSas == [perms |-> {}, start |-> 0, expiry |-> 0]

\* A get_sas_token that does not backdate the start time.
GetSasTokenNotBackdated(expiration, read, write, delete, listing) ==
    [perms |-> (IF read THEN {"read"} ELSE {}) \cup (IF write THEN {"write"} ELSE {})
               \cup (IF delete THEN {"delete"} ELSE {}) \cup (IF listing THEN {"list"} ELSE {}),
     start |-> now,
     expiry |-> expiration]

\* StorageClient.get_sas_token
GetSasToken(expiration, read, write, delete, listing) ==
    [perms |-> (IF read THEN {"read"} ELSE {}) \cup (IF write THEN {"write"} ELSE {})
               \cup (IF delete THEN {"delete"} ELSE {}) \cup (IF listing THEN {"list"} ELSE {}),
     start |-> now - SkewMinutes,
     expiry |-> expiration]

\* One call of _spatio_get, _spatio_post or _spatio_put, retries included.
Request(method, path, source_id, sas, ok) ==
    [method |-> method, path |-> path, id |-> source_id, sas |-> sas, ok |-> ok]

RaisedOutcome(error) == [state |-> "raised", error |-> error, ingestion_id |-> 0, run_id |-> 0]

\* The records a catalog can hold for a container: SAS sources with or
\* without an expiration, and one source of another type.
SourceRecords ==
    [sourceType : {"SasToken"}, containerUrl : {"in", "other"},
     hasExpiration : {TRUE},
     expiration : {Hours(1), Hours(MIN_SAS_TOKEN_EXPIRATION_HOURS) - 1,
                   Hours(MIN_SAS_TOKEN_EXPIRATION_HOURS),
                   Hours(MIN_SAS_TOKEN_EXPIRATION_HOURS) + 1}]
    \cup [sourceType : {"SasToken"}, containerUrl : {"in", "other"},
          hasExpiration : {FALSE}, expiration : {0}]
    \cup [sourceType : {"ManagedIdentity"}, containerUrl : {"in"},
          hasExpiration : {TRUE}, expiration : {Hours(DEFAULT_SAS_TOKEN_EXPIRATION_HOURS)}]

CatalogInit ==
    /\ now = 0
    /\ sources \in Seqs(SourceRecords, MaxSources)
    /\ requests = <<>>
    /\ bpc = "idle"
    /\ target = ""
    /\ found = {}
    /\ cursor = 0
    /\ outcome = NoOutcome
    /\ ncalls = 0
    /\ PipelineIdle
    /\ RetryIdle
    /\ TokenIdle
    /\ TemplatesIdle
    /\ RenderIdle
    /\ IndexIdle
    /\ ReplayIdle
    /\ LoggingIdle
    /\ TransformIdle
    /\ LaterIdle

\* The clock moves between two calls; what the last call held is gone.
Tick ==
    /\ bpc \in {"idle", "done"}
    /\ now + Hours(MIN_SAS_TOKEN_EXPIRATION_HOURS) <= MaxNow
    /\ now' = now + Hours(MIN_SAS_TOKEN_EXPIRATION_HOURS)
    /\ bpc' = "idle"
    /\ requests' = <<>>
    /\ target' = ""
    /\ found' = {}
    /\ cursor' = 0
    /\ outcome' = NoOutcome
    /\ UNCHANGED <<sources, ncalls>>
    /\ UNCHANGED nonCatalogVars

\* bulk_ingest_stac_collection up to the first request of
\* get_ingestion_sources, the list of the ingestion sources.
BulkIngest ==
    /\ bpc \in {"idle", "done"}
    /\ ncalls < MaxCalls
    /\ \E collection_url \in CollectionUrls, ok \in BOOLEAN :
          /\ target' = ContainerUrl(collection_url)
          /\ requests' = <<Request("GET", "ingestion-sources", 0, NoSas, ok)>>
          /\ bpc' = IF ok THEN "listing" ELSE "done"
          /\ outcome' = IF ok THEN NoOutcome ELSE RaisedOutcome("ClientResponseError")
    /\ found' = {}
    /\ cursor' = 1
    /\ ncalls' = ncalls + 1
    /\ UNCHANGED <<now, sources>>
    /\ UNCHANGED nonCatalogVars

\* One round of the loop of get_ingestion_sources: the details of a
\* source are read, the expiration is taken from them, and a SAS source
\* enters the map under its container URL.
GetIngestionSource ==
    /\ bpc = "listing"
    /\ cursor <= Len(sources)
    /\ \E ok \in BOOLEAN :
          LET ingestion_source == sources[cursor]
              container_url == ingestion_source.containerUrl
          IN  /\ requests' = Append(requests, Request("GET", "ingestion-source", cursor, NoSas, ok))
              /\ IF ~ok
                 THEN /\ outcome' = RaisedOutcome("ClientResponseError")
                      /\ bpc' = "done"
                      /\ UNCHANGED <<found, cursor>>
                 ELSE IF ~ingestion_source.hasExpiration
                 THEN /\ outcome' = RaisedOutcome("KeyError")
                      /\ bpc' = "done"
                      /\ UNCHANGED <<found, cursor>>
                 ELSE /\ found' = IF ingestion_source.sourceType = "SasToken"
                                  THEN {f \in found : f.containerUrl # container_url}
                                       \cup {[containerUrl |-> container_url, id |-> cursor,
                                              expiration |-> ingestion_source.expiration]}
                                  ELSE found
                      /\ cursor' = cursor + 1
                      /\ UNCHANGED <<outcome, bpc>>
    /\ UNCHANGED <<now, sources, target, ncalls>>
    /\ UNCHANGED nonCatalogVars

EnsureFailPoints == {"none", "container", "key", "request", "close"}

\* ingestion_sources.get(container_url)
FoundFor(container_url) == {f \in found : f.containerUrl = container_url}

\* The record the catalog keeps for a SAS source.
SasRecord(container_url, sas) ==
    [sourceType |-> "SasToken", containerUrl |-> container_url,
     hasExpiration |-> TRUE, expiration |-> sas.expiry]

\* An update that is made only once the expiration is nearer than the
\* minimum.
EnsureRequestsStrict(failAt, sas) ==
    IF failAt \in {"container", "key"} THEN <<>>
    ELSE IF FoundFor(target) = {}
    THEN <<Request("POST", "ingestion-sources", 0, sas, failAt # "request")>>
    ELSE LET ingestion_source == CHOOSE f \in FoundFor(target) : TRUE
         IN  IF now + Hours(MIN_SAS_TOKEN_EXPIRATION_HOURS) > ingestion_source.expiration
             THEN <<Request("PUT", "ingestion-source", ingestion_source.id, sas, failAt # "request")>>
             ELSE <<>>

\* What the rest of create_or_update_ingestion_source requests.
EnsureRequests(failAt, sas) ==
    IF failAt \in {"container", "key"} THEN <<>>
    ELSE IF FoundFor(target) = {}
    THEN <<Request("POST", "ingestion-sources", 0, sas, failAt # "request")>>
    ELSE LET ingestion_source == CHOOSE f \in FoundFor(target) : TRUE
         IN  IF now + Hours(MIN_SAS_TOKEN_EXPIRATION_HOURS) >= ingestion_source.expiration
             THEN <<Request("PUT", "ingestion-source", ingestion_source.id, sas, failAt # "request")>>
             ELSE <<>>

\* The catalog after the requests.
Applied(records, reqs) ==
    IF reqs = <<>> \/ ~reqs[1].ok THEN records
    ELSE IF reqs[1].method = "POST"
    THEN Append(records, SasRecord(target, reqs[1].sas))
    ELSE [records EXCEPT ![reqs[1].id] = SasRecord(target, reqs[1].sas)]

\* The rest of create_or_update_ingestion_source, once the map is built:
\* the storage scope is entered, the source is created or, when it expires
\* within the minimum, updated with a fresh SAS token; the scope is closed.
EnsureIngestionSource ==
    /\ bpc = "listing"
    /\ cursor > Len(sources)
    /\ \E failAt \in EnsureFailPoints :
          LET sas == GetSasToken(now + Hours(DEFAULT_SAS_TOKEN_EXPIRATION_HOURS),
                                 TRUE, FALSE, FALSE, TRUE)
              reqs == EnsureRequests(failAt, sas)
              failed == \/ failAt \in {"container", "close"}
                        \/ reqs # <<>> /\ ~reqs[1].ok
                        \/ failAt = "key" /\ (\/ FoundFor(target) = {}
                                              \/ \E f \in FoundFor(target) :
                                                    now + Hours(MIN_SAS_TOKEN_EXPIRATION_HOURS) >= f.expiration)
          IN  /\ requests' = requests \o reqs
              /\ sources' = Applied(sources, reqs)
              /\ bpc' = IF failed THEN "done" ELSE "ensured"
              /\ outcome' = IF ~failed THEN outcome
                            ELSE IF reqs # <<>> /\ ~reqs[1].ok
                            THEN RaisedOutcome("ClientResponseError")
                            ELSE RaisedOutcome("HttpResponseError")
    /\ UNCHANGED <<now, target, found, cursor, ncalls>>
    /\ UNCHANGED nonCatalogVars

\* An ingestion that is posted twice.
PostIngestionTwice ==
    /\ bpc = "ensured"
    /\ \E ok \in BOOLEAN :
          /\ requests' = requests \o <<Request("POST", "ingestions", 0, NoSas, TRUE),
                                       Request("POST", "ingestions", 0, NoSas, ok)>>
          /\ bpc' = IF ok THEN "ingested" ELSE "done"
          /\ outcome' = IF ok THEN outcome ELSE RaisedOutcome("ClientResponseError")
    /\ UNCHANGED <<now, sources, target, found, cursor, ncalls>>
    /\ UNCHANGED nonCatalogVars

\* Lines 163-183: the StaticCatalog ingestion is posted.
PostIngestion ==
    /\ bpc = "ensured"
    /\ \E ok \in BOOLEAN :
          /\ requests' = Append(requests, Request("POST", "ingestions", 0, NoSas, ok))
          /\ bpc' = IF ok THEN "ingested" ELSE "done"
          /\ outcome' = IF ok THEN outcome ELSE RaisedOutcome("ClientResponseError")
    /\ UNCHANGED <<now, sources, target, found, cursor, ncalls>>
    /\ UNCHANGED nonCatalogVars

\* Lines 185-197: the run is posted and the two ids are returned.
PostRun ==
    /\ bpc = "ingested"
    /\ \E ok \in BOOLEAN :
          /\ requests' = Append(requests, Request("POST", "runs", 0, NoSas, ok))
          /\ outcome' = IF ok
                        THEN [state |-> "returned", error |-> "",
                              ingestion_id |-> ncalls, run_id |-> ncalls]
                        ELSE RaisedOutcome("ClientResponseError")
    /\ bpc' = "done"
    /\ UNCHANGED <<now, sources, target, found, cursor, ncalls>>
    /\ UNCHANGED nonCatalogVars

CatalogNext ==
    \/ Tick
    \/ BulkIngest
    \/ GetIngestionSource
    \/ EnsureIngestionSource
    \/ PostIngestion
    \/ PostRun

SpecCatalog == CatalogInit /\ [][CatalogNext]_vars

Puts == {i \in DOMAIN requests : requests[i].method = "PUT"}
SourcePosts ==
    {i \in DOMAIN requests : requests[i].method = "POST" /\ requests[i].path = "ingestion-sources"}
IngestionPosts ==
    {i \in DOMAIN requests : requests[i].method = "POST" /\ requests[i].path = "ingestions"}
RunPosts ==
    {i \in DOMAIN requests : requests[i].method = "POST" /\ requests[i].path = "runs"}

\* C13: when the source found for the container expires before now +
\* MIN_HOURS, exactly one PUT to its id carries a credential that expires
\* at now + DEFAULT_HOURS; when it expires at now + MIN_HOURS or later, no
\* PUT and no POST goes to the ingestion sources and the source is reused.
RefreshBelowMinimum ==
    bpc = "ensured" =>
        \A f \in FoundFor(target) :
            /\ f.expiration < now + Hours(MIN_SAS_TOKEN_EXPIRATION_HOURS) =>
                  /\ Cardinality(Puts) = 1
                  /\ \A i \in Puts :
                        /\ requests[i].id = f.id
                        /\ requests[i].sas.expiry = now + Hours(DEFAULT_SAS_TOKEN_EXPIRATION_HOURS)
            /\ f.expiration >= now + Hours(MIN_SAS_TOKEN_EXPIRATION_HOURS) =>
                  /\ Puts = {}
                  /\ SourcePosts = {}
                  /\ sources[f.id].expiration = f.expiration

\* C13, amended: the PUT is issued when the source expires at now +
\* MIN_HOURS or before, and none is issued when it expires after now +
\* MIN_HOURS.
RefreshAtMinimum ==
    bpc = "ensured" =>
        \A f \in FoundFor(target) :
            /\ f.expiration <= now + Hours(MIN_SAS_TOKEN_EXPIRATION_HOURS) =>
                  /\ Cardinality(Puts) = 1
                  /\ \A i \in Puts :
                        /\ requests[i].id = f.id
                        /\ requests[i].sas.expiry = now + Hours(DEFAULT_SAS_TOKEN_EXPIRATION_HOURS)
            /\ f.expiration > now + Hours(MIN_SAS_TOKEN_EXPIRATION_HOURS) =>
                  /\ Puts = {}
                  /\ SourcePosts = {}
                  /\ sources[f.id].expiration = f.expiration

\* A source that expires exactly at now + MIN_HOURS has been refreshed.
RefreshAtMinimumWitness ==
    /\ bpc = "ensured"
    /\ \E f \in FoundFor(target) :
          /\ f.expiration = now + Hours(MIN_SAS_TOKEN_EXPIRATION_HOURS)
          /\ Cardinality(Puts) = 1

\* C14: when no source maps to the container, exactly one POST creates
\* the source and no PUT is issued; the credential sent grants read and
\* list only, expires at now + DEFAULT_HOURS and starts 5 minutes ago.
CreateWhenMissing ==
    (bpc = "ensured" /\ FoundFor(target) = {}) =>
        /\ Cardinality(SourcePosts) = 1
        /\ Puts = {}
        /\ \A i \in SourcePosts :
              /\ requests[i].sas.perms = {"read", "list"}
              /\ requests[i].sas.expiry = now + Hours(DEFAULT_SAS_TOKEN_EXPIRATION_HOURS)
              /\ requests[i].sas.start = now - 5

\* A source has been created for a container that had none, at a time
\* other than 0.
CreateWhenMissingWitness ==
    /\ bpc = "ensured"
    /\ FoundFor(target) = {}
    /\ now > 0
    /\ \E i \in SourcePosts : requests[i].ok

\* C15: a record without an expiration never makes the listing (or the
\* call around it) fail, it is left out of the map, and every SAS record
\* that has an expiration is in the map once the listing is over.
SkipsSourcesWithoutExpiration ==
    /\ outcome.error # "KeyError"
    /\ (bpc = "listing" /\ cursor > Len(sources)) =>
          /\ \A f \in found : sources[f.id].hasExpiration
          /\ \A i \in DOMAIN sources :
                (sources[i].hasExpiration /\ sources[i].sourceType = "SasToken") =>
                    \E f \in found : f.containerUrl = sources[i].containerUrl

\* The step of bulk_ingest a request belongs to.
Stage(r) ==
    IF r.path = "runs" THEN 4
    ELSE IF r.path = "ingestions" THEN 3
    ELSE IF r.method = "GET" THEN 1
    ELSE 2

\* C16: the requests of a call come in the order of the steps (ensure the
\* source, POST the ingestion, POST the run), with one POST of the
\* ingestion and one of the run in a call that returns its two ids, and
\* nothing is requested after a step has failed; with a source that
\* expires in 1h, a call that returns has issued one PUT to that source,
\* one POST to /ingestions and one POST to /runs.
IngestOrder ==
    /\ \A i, j \in DOMAIN requests : i < j => Stage(requests[i]) <= Stage(requests[j])
    /\ \A i \in DOMAIN requests : ~requests[i].ok => i = Len(requests)
    /\ Cardinality(Puts \cup SourcePosts) <= 1
    /\ Cardinality(IngestionPosts) <= 1
    /\ Cardinality(RunPosts) <= 1
    /\ RunPosts # {} => IngestionPosts # {}
    /\ IngestionPosts # {} => bpc \in {"ingested", "done"}
    /\ (outcome.state = "raised" /\ \A i \in DOMAIN requests : requests[i].ok) =>
          (IngestionPosts = {} /\ RunPosts = {})
    /\ outcome.state = "raised" => bpc = "done"
    /\ outcome.state = "returned" =>
          /\ Cardinality(IngestionPosts) = 1
          /\ Cardinality(RunPosts) = 1
          /\ outcome.ingestion_id > 0
          /\ outcome.run_id > 0
          /\ \A f \in FoundFor(target) :
                f.expiration = now + Hours(1) =>
                    /\ Cardinality(Puts) = 1
                    /\ \A i \in Puts : requests[i].id = f.id

\* A call has returned after refreshing a source that expired in 1h.
IngestOrderWitness ==
    /\ outcome.state = "returned"
    /\ \E f \in FoundFor(target) : f.expiration = now + Hours(1)
    /\ Cardinality(Puts) = 1
    /\ Len(requests) >= 4

\* ================================================= the bearer token cache
MaxClock == 6

RefreshMinutes == 5

\* The lifetimes of the tokens the credential hands out, in minutes.
TokenLifetimes == {RefreshMinutes + 1, 2 * RefreshMinutes}

TokenInit ==
    /\ clock = 0
    /\ access_token = NoToken
    /\ callers = [c \in Callers |-> NoCaller]
    /\ PipelineIdle
    /\ RetryIdle
    /\ CatalogIdle
    /\ TemplatesIdle
    /\ RenderIdle
    /\ IndexIdle
    /\ ReplayIdle
    /\ LoggingIdle
    /\ TransformIdle
    /\ LaterIdle

\* Time passes, also while a coroutine is suspended.
TokenTick ==
    /\ clock < MaxClock
    /\ clock' = clock + 1
    /\ UNCHANGED <<access_token, callers>>
    /\ UNCHANGED nonTokenVars

\* A test of the cached token that leaves no margin.
RequestTokenNoMargin(c) ==
    /\ callers[c].state = "idle"
    /\ IF ~access_token.cached \/ access_token.expires_on < clock
       THEN callers' = [callers EXCEPT ![c] =
                [state |-> "acquiring", cached |-> access_token.cached,
                 expires_on |-> access_token.expires_on, at |-> clock]]
       ELSE callers' = [callers EXCEPT ![c] =
                [state |-> "sending", cached |-> TRUE,
                 expires_on |-> access_token.expires_on, at |-> clock]]
    /\ UNCHANGED <<clock, access_token>>
    /\ UNCHANGED nonTokenVars

\* _get_spatio_bearer_token up to its await: a request of coroutine c asks
\* for the token; the cached one is returned, or the credential is asked
\* for a new one and the coroutine is suspended.
RequestToken(c) ==
    /\ callers[c].state = "idle"
    /\ IF ~access_token.cached \/ access_token.expires_on < clock + RefreshMinutes
       THEN callers' = [callers EXCEPT ![c] =
                [state |-> "acquiring", cached |-> access_token.cached,
                 expires_on |-> access_token.expires_on, at |-> clock]]
       ELSE callers' = [callers EXCEPT ![c] =
                [state |-> "sending", cached |-> TRUE,
                 expires_on |-> access_token.expires_on, at |-> clock]]
    /\ UNCHANGED <<clock, access_token>>
    /\ UNCHANGED nonTokenVars

\* credential.get_token returns: the token is stored and handed to the
\* request.
AcquireToken(c) ==
    /\ callers[c].state = "acquiring"
    /\ \E lifetime \in TokenLifetimes :
          /\ access_token' = [cached |-> TRUE, expires_on |-> clock + lifetime]
          /\ callers' = [callers EXCEPT ![c] =
                [state |-> "sending", cached |-> FALSE,
                 expires_on |-> clock + lifetime, at |-> clock]]
    /\ UNCHANGED clock
    /\ UNCHANGED nonTokenVars

\* credential.get_token raises: the request is not sent.
AcquireFail(c) ==
    /\ callers[c].state = "acquiring"
    /\ callers' = [callers EXCEPT ![c] = NoCaller]
    /\ UNCHANGED <<clock, access_token>>
    /\ UNCHANGED nonTokenVars

\* The request goes out with the Authorization header and completes.
Send(c) ==
    /\ callers[c].state = "sending"
    /\ callers' = [callers EXCEPT ![c] = NoCaller]
    /\ UNCHANGED <<clock, access_token>>
    /\ UNCHANGED nonTokenVars

TokenNext ==
    \/ TokenTick
    \/ \E c \in Callers : RequestToken(c)
    \/ \E c \in Callers : AcquireToken(c)
    \/ \E c \in Callers : AcquireFail(c)
    \/ \E c \in Callers : Send(c)

SpecToken == TokenInit /\ [][TokenNext]_vars

\* C17: every request goes out with a token that had at least 5 minutes
\* to expiry when the client handed it out, and a new token is acquired
\* only when none was cached or the cached one had under 5 minutes left.
TokenFresh ==
    \A c \in Callers :
        /\ callers[c].state = "sending" =>
              /\ callers[c].expires_on >= callers[c].at + 5
              /\ access_token.cached
        /\ callers[c].state = "acquiring" =>
              (~callers[c].cached \/ callers[c].expires_on < callers[c].at + 5)

\* A request reuses a token acquired earlier, with exactly 5 minutes left.
TokenFreshWitness ==
    \E c \in Callers :
        /\ callers[c].state = "sending"
        /\ callers[c].cached
        /\ callers[c].expires_on = callers[c].at + 5
        /\ callers[c].at > 0

\* C18: at most one acquisition of the token is in flight at any time.
OneRefreshInFlight ==
    Cardinality({c \in Callers : callers[c].state = "acquiring"}) <= 1

\* ============================================== the template environment
MaxOps == 4
MaxVersion == 2

\* One entry of the history.
Op(op, blob_url, loaded, version, stored) ==
    [op |-> op, url |-> blob_url, loaded |-> loaded, version |-> version, stored |-> stored]

TemplatesInit ==
    /\ blobs = [u \in TemplateUrls |-> 1]
    /\ cache = [u \in TemplateUrls |-> 0]
    /\ bytecode \in [TemplateUrls -> {0, 1}]
    /\ enable_cache \in BOOLEAN
    /\ history = <<>>
    /\ PipelineIdle
    /\ RetryIdle
    /\ CatalogIdle
    /\ TokenIdle
    /\ RenderIdle
    /\ IndexIdle
    /\ ReplayIdle
    /\ LoggingIdle
    /\ TransformIdle
    /\ LaterIdle

\* The template stored at a URL is replaced.
ChangeTemplate(blob_url) ==
    /\ blobs[blob_url] < MaxVersion
    /\ blobs' = [blobs EXCEPT ![blob_url] = @ + 1]
    /\ UNCHANGED <<cache, bytecode, enable_cache, history>>
    /\ UNCHANGED nonTemplateVars

\* A retrieval that asks the loader every time.
GetGeotemplateUncached(blob_url) ==
    /\ Len(history) < MaxOps
    /\ \E ok \in BOOLEAN :
          /\ cache' = IF ok THEN [cache EXCEPT ![blob_url] = blobs[blob_url]] ELSE cache
          /\ bytecode' = IF ok /\ enable_cache
                         THEN [bytecode EXCEPT ![blob_url] = blobs[blob_url]]
                         ELSE bytecode
          /\ history' = Append(history,
                Op("get", blob_url, TRUE, IF ok THEN blobs[blob_url] ELSE 0, blobs[blob_url]))
    /\ UNCHANGED <<blobs, enable_cache>>
    /\ UNCHANGED nonTemplateVars

\* get_geotemplate_from_storage: the environment returns the template it
\* holds under the name; otherwise the loader reads the source, the code
\* comes from the bytecode bucket of that source or from compiling it, and
\* the template is kept under the name.
GetGeotemplateFromStorage(blob_url) ==
    /\ Len(history) < MaxOps
    /\ IF cache[blob_url] # 0
       THEN /\ history' = Append(history,
                  Op("get", blob_url, FALSE, cache[blob_url], blobs[blob_url]))
            /\ UNCHANGED <<cache, bytecode>>
       ELSE \E ok \in BOOLEAN :
              /\ cache' = IF ok THEN [cache EXCEPT ![blob_url] = blobs[blob_url]] ELSE cache
              /\ bytecode' = IF ok /\ enable_cache
                             THEN [bytecode EXCEPT ![blob_url] = blobs[blob_url]]
                             ELSE bytecode
              /\ history' = Append(history,
                    Op("get", blob_url, TRUE, IF ok THEN blobs[blob_url] ELSE 0, blobs[blob_url]))
    /\ UNCHANGED <<blobs, enable_cache>>
    /\ UNCHANGED nonTemplateVars

\* clear_cache: the bytecode cache, when there is one, is emptied.
ClearCache ==
    /\ Len(history) < MaxOps
    /\ bytecode' = IF enable_cache THEN [u \in TemplateUrls |-> 0] ELSE bytecode
    /\ history' = Append(history, Op("clear", "", FALSE, 0, 0))
    /\ UNCHANGED <<blobs, cache, enable_cache>>
    /\ UNCHANGED nonTemplateVars

TemplatesNext ==
    \/ \E u \in TemplateUrls : ChangeTemplate(u)
    \/ \E u \in TemplateUrls : GetGeotemplateFromStorage(u)
    \/ ClearCache

SpecTemplates == TemplatesInit /\ [][TemplatesNext]_vars

Retrieved(i, blob_url) ==
    /\ history[i].op = "get"
    /\ history[i].url = blob_url
    /\ history[i].version # 0

ClearedBetween(i, j) == \E k \in (i + 1)..(j - 1) : history[k].op = "clear"

\* C19: once a template has been retrieved from a URL, a later retrieval
\* of the same URL with no clear_cache in between does not invoke the
\* loader.
CachedByUrl ==
    \A i, j \in DOMAIN history : \A u \in TemplateUrls :
        (i < j /\ Retrieved(i, u) /\ history[j].op = "get" /\ history[j].url = u
              /\ ~ClearedBetween(i, j)) =>
            ~history[j].loaded

\* A URL has been retrieved twice, and changed in between.
CachedByUrlWitness ==
    \E i, j \in DOMAIN history : \E u \in TemplateUrls :
        /\ i < j
        /\ Retrieved(i, u)
        /\ Retrieved(j, u)
        /\ ~ClearedBetween(i, j)
        /\ ~history[j].loaded
        /\ history[j].stored # history[i].stored

\* C20: after clear_cache, the next retrieval of a URL retrieved before
\* invokes the loader again and returns the template stored at the URL.
ClearInvalidates ==
    \A i, j \in DOMAIN history : \A u \in TemplateUrls :
        (/\ i < j
         /\ Retrieved(i, u)
         /\ Retrieved(j, u)
         /\ \E k \in (i + 1)..(j - 1) :
               /\ history[k].op = "clear"
               /\ \A m \in (k + 1)..(j - 1) : history[m].url # u) =>
            /\ history[j].loaded
            /\ history[j].version = history[j].stored

\* ================================================ the errors of activities
\* C25: a crawler activity returns the scene list or raises its own typed
\* error, "Error crawling files" for the file crawler and "Error crawling
\* index" for the index crawler; nothing else escapes, and a crawler that
\* raised has returned no scenes.
CrawlerTypedError ==
    crawler.state = "raised" =>
        /\ crawler.msg = IF crawler.name = FILE_CRAWLER_ACTIVITY_NAME
                         THEN MsgCrawlFiles ELSE MsgCrawlIndex
        /\ scenes = <<>>

\* C26: create_collection returns the URL of <base_dir>/collection.json,
\* which has been uploaded, or raises "Error creating collection"; nothing
\* else escapes.
BuildTypedError ==
    /\ build.state = "raised" => build.msg = MsgCreateCollection
    /\ build.state = "returned" =>
          /\ build.url = CollectionBlob(build.base_dir)
          /\ collection.exists

\* ============================================ the rendering of a template
\* What evaluating the template can do: render a text, or raise one of the
\* jinja2 errors or any other exception.
Evaluations ==
    {"ok", "FilterArgumentError", "SecurityError", "TemplateRuntimeError", "Exception"}

\* The texts a template can render: a STAC item, an item that fails its
\* schema, a JSON object of another type, a JSON object that lacks the
\* fields of an item, a JSON value that is no object, and a text that is
\* no JSON.
Texts == {"item", "invalid_item", "not_item", "incomplete", "not_dict", "not_json"}

RenderReturned(validated) == [state |-> "returned", error |-> "", validated |-> validated]
RenderRaised(error) == [state |-> "raised", error |-> error, validated |-> FALSE]

\* GeoTemplate.render_text
render_text(ev) ==
    IF ev = "ok" THEN RenderReturned(FALSE)
    ELSE RenderRaised("GeoTemplateRuntimeError")

\* json.loads
loads(text) ==
    IF text = "not_json" THEN RenderRaised("JSONDecodeError") ELSE RenderReturned(FALSE)

\* GeoTemplate.render_json
render_json(ev, text) ==
    IF render_text(ev).state = "raised" THEN render_text(ev)
    ELSE IF loads(text).state = "raised" THEN RenderRaised("GeoTemplateJsonError")
    ELSE RenderReturned(FALSE)

\* pystac's Item.from_dict
from_dict(text) ==
    IF text = "not_item" THEN RenderRaised("STACTypeError")
    ELSE IF text = "incomplete" THEN RenderRaised("KeyError")
    ELSE IF text = "not_dict" THEN RenderRaised("AttributeError")
    ELSE RenderReturned(FALSE)

\* pystac's Item.validate
item_validate(text) ==
    IF text = "invalid_item" THEN RenderRaised("STACValidationError") ELSE RenderReturned(TRUE)

\* A render_stac whose handlers turn every error into a STAC error.
render_stac_wrapping(ev, text, val) ==
    IF render_json(ev, text).state = "raised" THEN RenderRaised("GeoTemplateStacError")
    ELSE IF from_dict(text).state = "raised" THEN RenderRaised("GeoTemplateStacError")
    ELSE IF val /\ item_validate(text).state = "raised" THEN RenderRaised("GeoTemplateStacError")
    ELSE RenderReturned(val)

\* GeoTemplate.render_stac
render_stac(ev, text, val) ==
    IF render_json(ev, text).state = "raised" THEN render_json(ev, text)
    ELSE IF from_dict(text).state = "raised" THEN RenderRaised("GeoTemplateStacError")
    ELSE IF val /\ item_validate(text).state = "raised" THEN RenderRaised("GeoTemplateStacError")
    ELSE RenderReturned(val)

Rendering(method, r) ==
    [method |-> method, state |-> r.state, error |-> r.error, validated |-> r.validated]

RenderInit ==
    /\ evaluation \in Evaluations
    /\ rendered \in Texts
    /\ validate \in BOOLEAN
    /\ rendering = [method |-> "none", state |-> "ready", error |-> "", validated |-> FALSE]
    /\ PipelineIdle
    /\ RetryIdle
    /\ CatalogIdle
    /\ TokenIdle
    /\ TemplatesIdle
    /\ IndexIdle
    /\ ReplayIdle
    /\ LoggingIdle
    /\ TransformIdle
    /\ LaterIdle

RenderText ==
    /\ rendering.state = "ready"
    /\ rendering' = Rendering("render_text", render_text(evaluation))
    /\ UNCHANGED <<evaluation, rendered, validate>>
    /\ UNCHANGED nonRenderVars

RenderJson ==
    /\ rendering.state = "ready"
    /\ rendering' = Rendering("render_json", render_json(evaluation, rendered))
    /\ UNCHANGED <<evaluation, rendered, validate>>
    /\ UNCHANGED nonRenderVars

RenderStac ==
    /\ rendering.state = "ready"
    /\ rendering' = Rendering("render_stac", render_stac(evaluation, rendered, validate))
    /\ UNCHANGED <<evaluation, rendered, validate>>
    /\ UNCHANGED nonRenderVars

RenderNext ==
    \/ RenderText
    \/ RenderJson
    \/ RenderStac

SpecRender == RenderInit /\ [][RenderNext]_vars

\* C23: the error of a failed render is that of the first stage that
\* fails: GeoTemplateRuntimeError when the evaluation fails, through
\* render_json and render_stac; GeoTemplateJsonError when the text is no
\* JSON, through render_stac; GeoTemplateStacError when the item cannot be
\* built or fails its schema; and the schema is checked only when validate
\* is true.
RenderErrorKind ==
    /\ rendering.method \in {"render_json", "render_stac"} =>
          /\ evaluation # "ok" =>
                (rendering.state = "raised" /\ rendering.error = "GeoTemplateRuntimeError")
          /\ (evaluation = "ok" /\ rendered = "not_json") =>
                (rendering.state = "raised" /\ rendering.error = "GeoTemplateJsonError")
    /\ (rendering.method = "render_json" /\ evaluation = "ok" /\ rendered # "not_json") =>
          rendering.state = "returned"
    /\ (rendering.method = "render_stac" /\ evaluation = "ok") =>
          /\ rendered \in {"not_item", "incomplete", "not_dict"} =>
                (rendering.state = "raised" /\ rendering.error = "GeoTemplateStacError")
          /\ rendered = "invalid_item" =>
                IF validate
                THEN rendering.state = "raised" /\ rendering.error = "GeoTemplateStacError"
                ELSE rendering.state = "returned" /\ ~rendering.validated
          /\ rendered = "item" =>
                (rendering.state = "returned" /\ rendering.validated = validate)

\* render_stac has passed on the JSON error of a text that is no JSON.
RenderErrorKindWitness ==
    /\ rendering.method = "render_stac"
    /\ evaluation = "ok"
    /\ rendered = "not_json"
    /\ rendering.error = "GeoTemplateJsonError"

\* ====================================================== the index crawler
MaxChars == 5

LF == "LF"

\* The characters of an index file: a comment mark, a digit, a letter and
\* the line feed.
Chars == {"#", "1", "x", LF}

NoPrefix == [is_none |-> TRUE, chars |-> <<>>]

\* input.ignore_lines_starting_with: None, the empty string, or a string.
Prefixes ==
    {NoPrefix} \cup
    {[is_none |-> FALSE, chars |-> c] : c \in {<<>>, <<"#">>, <<"#", "#">>, <<"1">>}}

\* The index of the first line feed of cs, or one past its end.
FirstBreak(cs) ==
    IF \E i \in DOMAIN cs : cs[i] = LF
    THEN CHOOSE i \in DOMAIN cs : cs[i] = LF /\ \A j \in 1..(i - 1) : cs[j] # LF
    ELSE Len(cs) + 1

\* str.splitlines
RECURSIVE splitlines(_)
splitlines(cs) ==
    IF cs = <<>> THEN <<>>
    ELSE LET k == FirstBreak(cs)
         IN  <<SubSeq(cs, 1, k - 1)>> \o
             (IF k >= Len(cs) THEN <<>> ELSE splitlines(SubSeq(cs, k + 1, Len(cs))))

\* str.startswith
startswith(line, chars) ==
    /\ Len(chars) <= Len(line)
    /\ SubSeq(line, 1, Len(chars)) = chars

\* A line is a JSON text when it is a number, written with the digit.
IsJson(line) == line # <<>> /\ \A i \in DOMAIN line : line[i] = "1"

\* The scenes: a line as it is, or the value json.loads gives for it.
RawScene(line) == [text |-> line, number |-> 0]
JsonScene(line) == [text |-> <<>>, number |-> Len(line)]

\* A filter that is applied whenever the prefix is not None.
ignore_lines_unless_none(lines, ignore) ==
    IF ~ignore.is_none
    THEN SelectSeq(lines, LAMBDA line : ~startswith(line, ignore.chars))
    ELSE lines

\* Lines 70-78 of the index crawler.
ignore_lines(lines, ignore) ==
    IF ~ignore.is_none /\ ignore.chars # <<>>
    THEN SelectSeq(lines, LAMBDA line : ~startswith(line, ignore.chars))
    ELSE lines

IndexFailPoints == {"logging", "download", "none"}

NoCrawl == [state |-> "ready", error |-> "", scenes |-> <<>>]

IndexInit ==
    /\ index_file \in Seqs(Chars, MaxChars)
    /\ ignore_lines_starting_with \in Prefixes
    /\ is_ndjson \in BOOLEAN
    /\ crawl = NoCrawl
    /\ PipelineIdle
    /\ RetryIdle
    /\ CatalogIdle
    /\ TokenIdle
    /\ TemplatesIdle
    /\ RenderIdle
    /\ ReplayIdle
    /\ LoggingIdle
    /\ TransformIdle
    /\ LaterIdle

\* _index_crawler: the index is downloaded and split into lines, the
\* ignored lines are dropped and, for NDJSON, every line left is parsed.
IndexCrawl ==
    /\ crawl.state = "ready"
    /\ \E failAt \in IndexFailPoints :
          LET lines == ignore_lines(splitlines(index_file), ignore_lines_starting_with)
          IN  crawl' =
                IF failAt = "logging"
                THEN [state |-> "raised", error |-> "ValueError", scenes |-> <<>>]
                ELSE IF failAt = "download"
                THEN [state |-> "raised", error |-> "CrawlingError", scenes |-> <<>>]
                ELSE IF ~is_ndjson
                THEN [state |-> "returned", error |-> "",
                      scenes |-> [i \in DOMAIN lines |-> RawScene(lines[i])]]
                ELSE IF \E i \in DOMAIN lines : ~IsJson(lines[i])
                THEN [state |-> "raised", error |-> "CrawlingError", scenes |-> <<>>]
                ELSE [state |-> "returned", error |-> "",
                      scenes |-> [i \in DOMAIN lines |-> JsonScene(lines[i])]]
    /\ UNCHANGED <<index_file, ignore_lines_starting_with, is_ndjson>>
    /\ UNCHANGED nonIndexVars

IndexNext == IndexCrawl

SpecIndex == IndexInit /\ [][IndexNext]_vars

\* The lines of the file that are to be returned, by their number.
Kept ==
    {i \in DOMAIN splitlines(index_file) :
        \/ ignore_lines_starting_with.is_none
        \/ ignore_lines_starting_with.chars = <<>>
        \/ ~startswith(splitlines(index_file)[i], ignore_lines_starting_with.chars)}

\* The k-th of them.
KeptLine(k) ==
    splitlines(index_file)[CHOOSE i \in Kept : Cardinality({j \in Kept : j <= i}) = k]

\* C24: the index crawler returns, in file order, the lines that do not
\* start with the prefix when it is set and not empty, and all lines
\* otherwise; for NDJSON each element is the JSON value of its line.
IndexCrawlLines ==
    crawl.state = "returned" =>
        /\ Len(crawl.scenes) = Cardinality(Kept)
        /\ \A k \in DOMAIN crawl.scenes :
              IF is_ndjson
              THEN /\ IsJson(KeptLine(k))
                   /\ crawl.scenes[k].number = Len(KeptLine(k))
              ELSE crawl.scenes[k].text = KeptLine(k)

\* A header line and two JSON lines, with the prefix '#', have given two
\* objects.
IndexCrawlLinesWitness ==
    /\ crawl.state = "returned"
    /\ is_ndjson
    /\ ignore_lines_starting_with = [is_none |-> FALSE, chars |-> <<"#">>]
    /\ index_file = <<"#", LF, "1", LF, "1">>
    /\ Len(crawl.scenes) = 2

\* ====================================================== the logging scope
MaxScopes == 2
MaxRecords == 3

\* What upsert_entity can do: succeed, raise an HttpResponseError, or raise
\* another error of the client (a failed connection).
UpsertOutcomes == {"ok", "HttpResponseError", "ServiceRequestError"}

LoggingInit ==
    /\ handlers = {}
    /\ scope = [id |-> 0, state |-> "closed"]
    /\ queue = <<>>
    /\ listener = "off"
    /\ table = {}
    /\ stderr = {}
    /\ logged = {}
    /\ PipelineIdle
    /\ RetryIdle
    /\ CatalogIdle
    /\ TokenIdle
    /\ TemplatesIdle
    /\ RenderIdle
    /\ IndexIdle
    /\ ReplayIdle
    /\ TransformIdle
    /\ LaterIdle

\* logging_context up to its yield: a QueueHandler on a new queue is added
\* to the shared logger, then the table handler is constructed (which
\* raises when no logs storage account is configured) and the listener is
\* started.
logging_context_enter ==
    /\ scope.state = "closed"
    /\ scope.id < MaxScopes
    /\ handlers' = handlers \cup {scope.id + 1}
    /\ \E configured \in BOOLEAN :
          IF configured
          THEN /\ scope' = [id |-> scope.id + 1, state |-> "open"]
               /\ listener' = "running"
          ELSE /\ scope' = [id |-> scope.id + 1, state |-> "closed"]
               /\ listener' = "off"
    /\ queue' = <<>>
    /\ UNCHANGED <<table, stderr, logged>>
    /\ UNCHANGED nonLoggingVars

\* A record logged in the scope: the QueueHandler puts it on the queue.
enqueue ==
    /\ scope.state = "open"
    /\ Cardinality(logged) < MaxRecords
    /\ LET record == [scope |-> scope.id, number |-> Cardinality(logged) + 1]
       IN  /\ queue' = Append(queue, record)
           /\ logged' = logged \cup {record}
    /\ UNCHANGED <<handlers, scope, listener, table, stderr>>
    /\ UNCHANGED nonLoggingVars

\* The listener thread takes a record and hands it to emit: the entity is
\* written, or an HttpResponseError is printed on stderr, or another error
\* leaves emit and ends the thread.
emit ==
    /\ listener = "running"
    /\ queue # <<>>
    /\ queue' = Tail(queue)
    /\ \E upsert \in UpsertOutcomes :
          CASE upsert = "ok" ->
                  /\ table' = table \cup {Head(queue)}
                  /\ UNCHANGED <<stderr, listener>>
            [] upsert = "HttpResponseError" ->
                  /\ stderr' = stderr \cup {Head(queue)}
                  /\ UNCHANGED <<table, listener>>
            [] OTHER ->
                  /\ listener' = "dead"
                  /\ UNCHANGED <<table, stderr>>
    /\ UNCHANGED <<handlers, scope, logged>>
    /\ UNCHANGED nonLoggingVars

\* logging_context after its yield, on a normal exit and on an exception of
\* the body alike: listener.stop() waits for a running listener to drain
\* the queue, and returns at once when the thread has ended.
logging_context_exit ==
    /\ scope.state = "open"
    /\ \/ listener = "running" /\ queue = <<>>
       \/ listener = "dead"
    /\ scope' = [scope EXCEPT !.state = "closed"]
    /\ listener' = "off"
    /\ queue' = <<>>
    /\ UNCHANGED <<handlers, table, stderr, logged>>
    /\ UNCHANGED nonLoggingVars

LoggingNext ==
    \/ logging_context_enter
    \/ enqueue
    \/ emit
    \/ logging_context_exit

SpecLogging == LoggingInit /\ [][LoggingNext]_vars

\* C29: when no logging scope is open, the shared logger has the handlers
\* it had before any scope was entered.
HandlersRestored ==
    scope.state = "closed" => handlers = {}

\* C30: an error of the upsert never ends the shipper, and every record
\* logged in a scope that has been left was written to the table or
\* reported on stderr.
ShipperKeepsShipping ==
    /\ listener # "dead"
    /\ scope.state = "closed" => logged \subseteq (table \cup stderr)

\* ====================================================== the replays of the orchestrator
MaxTransforms == 2

InputResults == {"ok", "missing"}
CrawlResults == {"scenes", "empty", "fail"}
TransformResults == {"true", "false", "fail"}
CreateResults == {"ok", "fail"}

\* What the input and the activities of one run will give.
Plans ==
    [input : InputResults,
     crawl : CrawlResults,
     fan : UNION {[1..n -> TransformResults] : n \in 1..MaxTransforms},
     create : CreateResults]

\* A record of the logger, with the flag of the context when it was made.
LogRecord(text, replaying) == [msg |-> text, replaying |-> replaying]

\* A log_info that does not look at the context.
log_info_unguarded(logs, replaying, text) ==
    Append(logs, LogRecord(text, replaying))

\* log_info of the orchestrator
log_info(logs, replaying, text) ==
    IF ~replaying THEN Append(logs, LogRecord(text, replaying)) ELSE logs

\* log_warn of the orchestrator
log_warn(logs, replaying, text) ==
    IF ~replaying THEN Append(logs, LogRecord(text, replaying)) ELSE logs

\* _logger.error of the except block
logger_error(logs, replaying, text) ==
    Append(logs, LogRecord(text, replaying))

\* The completions of a kind of activity in the history, in its order.
EventsOf(kind) == SelectSeq(events, LAMBDA e : e.kind = kind)

Unplayed == {i \in DOMAIN events : ~events[i].played}

\* The end of an episode: the generator has yielded a task that is not
\* complete, and the events it was given are played from now on.
Suspend ==
    /\ opc' = "suspended"
    /\ events' = [i \in DOMAIN events |-> [events[i] EXCEPT !.played = TRUE]]
    /\ UNCHANGED <<is_replaying, emitted>>

ReplayInit ==
    /\ plan \in Plans
    /\ events = <<>>
    /\ opc = "scheduled"
    /\ is_replaying = FALSE
    /\ emitted = <<>>
    /\ PipelineIdle
    /\ RetryIdle
    /\ CatalogIdle
    /\ TokenIdle
    /\ TemplatesIdle
    /\ RenderIdle
    /\ IndexIdle
    /\ LoggingIdle
    /\ TransformIdle
    /\ LaterIdle

\* An episode begins: the orchestrator function runs from its top to the
\* yield of the crawler (lines 47-118); it is a replay unless it is the
\* first execution.
StartEpisode ==
    /\ \/ opc = "scheduled"
       \/ opc = "suspended" /\ Unplayed # {}
    /\ LET replaying == opc # "scheduled"
           logs == log_info(log_info(emitted, replaying, "Starting"),
                            replaying, "GettingInput")
       IN  /\ is_replaying' = replaying
           /\ IF plan.input = "missing"
              THEN /\ emitted' = logger_error(logs, replaying, "Error")
                   /\ opc' = "completed"
              ELSE /\ emitted' = log_info(logs, replaying, "Crawling")
                   /\ opc' = "crawler"
    /\ UNCHANGED <<plan, events>>
    /\ UNCHANGED nonReplayVars

\* The yield of line 118 is resumed with the completion of the crawler,
\* when the history has it (lines 122-147).
ResumeCrawler ==
    /\ opc = "crawler"
    /\ IF EventsOf("crawl") = <<>>
       THEN Suspend
       ELSE LET e == EventsOf("crawl")[1]
            IN  /\ is_replaying' = e.played
                /\ UNCHANGED events
                /\ CASE e.result = "fail" ->
                          /\ emitted' = logger_error(emitted, e.played, "Error")
                          /\ opc' = "completed"
                     [] e.result = "empty" ->
                          /\ emitted' = log_warn(emitted, e.played, "NoScenes")
                          /\ opc' = "completed"
                     [] OTHER ->
                          /\ emitted' = log_info(log_info(emitted, e.played, "Found"),
                                                 e.played, "Transforming")
                          /\ opc' = "task_all"
    /\ UNCHANGED plan
    /\ UNCHANGED nonReplayVars

\* The yield of line 147 is resumed when a transform has failed or when
\* all have completed (lines 148-168).
ResumeTaskAll ==
    /\ opc = "task_all"
    /\ LET ts == EventsOf("transform")
           failed == {i \in DOMAIN ts : ts[i].result = "fail"}
           failed_count == Cardinality({i \in DOMAIN ts : ts[i].result = "false"})
           success_count == Cardinality({i \in DOMAIN ts : ts[i].result = "true"})
       IN  IF failed # {}
           THEN LET e == ts[CHOOSE i \in failed : \A j \in failed : i <= j]
                IN  /\ is_replaying' = e.played
                    /\ emitted' = logger_error(emitted, e.played, "Error")
                    /\ opc' = "completed"
                    /\ UNCHANGED events
           ELSE IF Len(ts) = Len(plan.fan)
           THEN LET replaying == ts[Len(ts)].played
                    logs == IF failed_count > 0
                            THEN log_warn(emitted, replaying, "FailedItems")
                            ELSE emitted
                IN  /\ is_replaying' = replaying
                    /\ UNCHANGED events
                    /\ IF success_count = 0
                       THEN /\ emitted' = logs
                            /\ opc' = "completed"
                       ELSE /\ emitted' = log_info(log_info(logs, replaying, "Transformed"),
                                                   replaying, "Creating")
                            /\ opc' = "create_collection"
           ELSE Suspend
    /\ UNCHANGED plan
    /\ UNCHANGED nonReplayVars

\* The yield of line 168 is resumed with the completion of
\* create_collection (lines 176-195).
ResumeCreateCollection ==
    /\ opc = "create_collection"
    /\ IF EventsOf("create") = <<>>
       THEN Suspend
       ELSE LET e == EventsOf("create")[1]
            IN  /\ is_replaying' = e.played
                /\ UNCHANGED events
                /\ opc' = "completed"
                /\ emitted' = IF e.result = "fail"
                              THEN logger_error(emitted, e.played, "Error")
                              ELSE log_info(emitted, e.played, "Created")
    /\ UNCHANGED plan
    /\ UNCHANGED nonReplayVars

\* The crawler activity completes and the host appends it to the history.
CrawlerCompletes ==
    /\ opc = "suspended"
    /\ EventsOf("crawl") = <<>>
    /\ events' = Append(events, [kind |-> "crawl", index |-> 0,
                                 result |-> plan.crawl, played |-> FALSE])
    /\ UNCHANGED <<plan, opc, is_replaying, emitted>>
    /\ UNCHANGED nonReplayVars

\* A transform activity that was scheduled completes.
TransformCompletes ==
    /\ opc = "suspended"
    /\ EventsOf("crawl") # <<>>
    /\ EventsOf("crawl")[1].played
    /\ \E i \in DOMAIN plan.fan :
          /\ \A j \in DOMAIN events :
                ~(events[j].kind = "transform" /\ events[j].index = i)
          /\ events' = Append(events, [kind |-> "transform", index |-> i,
                                       result |-> plan.fan[i], played |-> FALSE])
    /\ UNCHANGED <<plan, opc, is_replaying, emitted>>
    /\ UNCHANGED nonReplayVars

\* The create_collection activity, scheduled once all transforms were
\* played, completes.
CreateCollectionCompletes ==
    /\ opc = "suspended"
    /\ Len(EventsOf("transform")) = Len(plan.fan)
    /\ \A i \in DOMAIN events : events[i].kind = "transform" => events[i].played
    /\ EventsOf("create") = <<>>
    /\ events' = Append(events, [kind |-> "create", index |-> 0,
                                 result |-> plan.create, played |-> FALSE])
    /\ UNCHANGED <<plan, opc, is_replaying, emitted>>
    /\ UNCHANGED nonReplayVars

ReplayNext ==
    \/ StartEpisode
    \/ ResumeCrawler
    \/ ResumeTaskAll
    \/ ResumeCreateCollection
    \/ CrawlerCompletes
    \/ TransformCompletes
    \/ CreateCollectionCompletes

SpecReplay == ReplayInit /\ [][ReplayNext]_vars

\* C27: no record of the orchestrator is emitted while the context is
\* replaying, and over all the episodes of a run each message is emitted
\* at most once.
NoReplayLogs ==
    \A i \in DOMAIN emitted :
        /\ ~emitted[i].replaying
        /\ \A j \in DOMAIN emitted : emitted[i].msg = emitted[j].msg => i = j

\* A run of two scenes has ended after replays over played events, and its
\* last message was emitted.
NoReplayLogsWitness ==
    /\ opc = "completed"
    /\ Len(plan.fan) = 2
    /\ \E i \in DOMAIN events : events[i].kind = "transform" /\ events[i].played
    /\ \E i \in DOMAIN emitted : emitted[i].msg = "Created"
    /\ \E i \in DOMAIN emitted : emitted[i].msg = "Starting"

\* ====================================================== concurrent transforms
MaxInvocations == 2

Invocations == 1..MaxInvocations

\* An invocation that the worker has been given and has not begun: its
\* input, and the id the host gave it.
Dispatched(i, instance_id, template_url) ==
    [id |-> i, items_path |-> instance_id, template_url |-> template_url,
     state |-> "dispatched", template |-> 0, client |-> "none", result |-> Null]

\* A lookup that never keeps the template it loaded.
load_template_unkept(c, blob_url, ok) == c

\* Environment._load_template of jinja2, called by get_template: the
\* template held under the name, or else the one the loader gives, which
\* is then kept under the name.
load_template(c, blob_url, ok) ==
    IF c[blob_url] = 0 /\ ok THEN [c EXCEPT ![blob_url] = blobs[blob_url]] ELSE c

nonTransformTemplateVars ==
    <<pipelineVars, retryVars, catalogVars, tokenVars, renderVars, indexVars, replayVars, loggingVars, laterVars>>

\* The invocations are of this run or of another, with one of the template
\* URLs each; the first is of this run, with the first URL.
TransformInit ==
    /\ \E ids \in [Invocations -> {Instance, OtherInstance}] :
       \E urls \in [Invocations -> TemplateUrls] :
          /\ ids[1] = Instance
          /\ urls[1] = "a.j2"
          /\ invs = [i \in Invocations |-> Dispatched(i, ids[i], urls[i])]
    /\ exported = {}
    /\ blobs = [u \in TemplateUrls |-> 1]
    /\ cache = [u \in TemplateUrls |-> 0]
    /\ bytecode = [u \in TemplateUrls |-> 0]
    /\ enable_cache = TRUE
    /\ history = <<>>
    /\ PipelineIdle
    /\ RetryIdle
    /\ CatalogIdle
    /\ TokenIdle
    /\ RenderIdle
    /\ IndexIdle
    /\ ReplayIdle
    /\ LoggingIdle
    /\ LaterIdle

TransformReturned(t, value) == [t EXCEPT !.state = "returned", !.result = value]

\* Lines 36-56, which run without an await: the logging scope is entered,
\* the template is retrieved from the environment of the module, and the
\* rendering is begun.
BeginTransform(i) ==
    /\ invs[i].state = "dispatched"
    /\ \E logging_ok \in BOOLEAN, ok \in BOOLEAN :
          LET u == invs[i].template_url
              hit == cache[u] # 0
              template == IF hit THEN cache[u] ELSE IF ok THEN blobs[u] ELSE 0
          IN  IF ~logging_ok
              THEN /\ invs' = [invs EXCEPT ![i].state = "raised"]
                   /\ UNCHANGED <<cache, bytecode, history>>
              ELSE /\ cache' = load_template(cache, u, ok)
                   /\ bytecode' = IF ~hit /\ ok /\ enable_cache
                                  THEN [bytecode EXCEPT ![u] = blobs[u]]
                                  ELSE bytecode
                   /\ history' = Append(history, Op("get", u, ~hit, template, blobs[u]))
                   /\ invs' = [invs EXCEPT ![i] =
                                 IF template = 0
                                 THEN TransformReturned(@, FALSE)
                                 ELSE [@ EXCEPT !.state = "rendering", !.template = template]]
    /\ UNCHANGED <<blobs, enable_cache, exported>>
    /\ UNCHANGED nonTransformTemplateVars

\* Lines 56-69: render_stac completes; the export storage client is
\* constructed and its scope is being entered.
RenderDone(i) ==
    /\ invs[i].state = "rendering"
    /\ \E render_ok \in BOOLEAN, configured \in BOOLEAN :
          invs' = [invs EXCEPT ![i] =
                     IF ~render_ok \/ ~configured
                     THEN TransformReturned(@, FALSE)
                     ELSE [@ EXCEPT !.state = "entering", !.client = "open"]]
    /\ UNCHANGED exported
    /\ UNCHANGED nonTransformVars

\* StorageClient.__aenter__: ensure_container; when it raises, the scope
\* was not entered and __aexit__ is not called.
StorageEnter(i) ==
    /\ invs[i].state = "entering"
    /\ \E ok \in BOOLEAN :
          invs' = [invs EXCEPT ![i] =
                     IF ok THEN [@ EXCEPT !.state = "uploading"]
                     ELSE TransformReturned(@, FALSE)]
    /\ UNCHANGED exported
    /\ UNCHANGED nonTransformVars

\* upload_blob under the name item_path, attempted up to RETRIES times;
\* every attempt the service applied has written the blob of that name.
UploadBlob(i) ==
    /\ invs[i].state = "uploading"
    /\ \E ok \in BOOLEAN, applied \in 0..RETRIES :
          /\ ok => applied >= 1
          /\ exported' = exported \cup
                {[name |-> ItemPath(invs[i]), invocation |-> i, attempt |-> k] :
                    k \in 1..applied}
          /\ invs' = [invs EXCEPT ![i].state = "closing",
                                  ![i].result = ok]
    /\ UNCHANGED nonTransformVars

\* StorageClient.__aexit__: close, three closes one after the other; an
\* error of one leaves the rest open and is the outcome of the scope.
StorageExit(i) ==
    /\ invs[i].state = "closing"
    /\ \E ok \in BOOLEAN :
          invs' = [invs EXCEPT ![i].state = "returned",
                               ![i].client = IF ok THEN "closed" ELSE "open",
                               ![i].result = @ /\ ok]
    /\ UNCHANGED exported
    /\ UNCHANGED nonTransformVars

TransformNext ==
    \/ \E i \in Invocations : BeginTransform(i)
    \/ \E i \in Invocations : RenderDone(i)
    \/ \E i \in Invocations : StorageEnter(i)
    \/ \E i \in Invocations : UploadBlob(i)
    \/ \E i \in Invocations : StorageExit(i)

SpecTransform == TransformInit /\ [][TransformNext]_vars

\* The retrievals of a URL that invoked the loader and got a template.
Loads(u) ==
    {k \in DOMAIN history :
        history[k].op = "get" /\ history[k].url = u
            /\ history[k].loaded /\ history[k].version # 0}

ClientsReleased ==
    \A i \in Invocations :
        invs[i].state \in {"returned", "raised"} => invs[i].client \in {"none", "closed"}

\* C28: every item is written at <instance_id>/items/<invocation_id>.json,
\* and no blob name is written by two invocations.
OneWriterPerItem ==
    \A w \in exported :
        /\ w.name = ItemBlob(invs[w.invocation].items_path, w.invocation)
        /\ \A x \in exported : x.name = w.name => x.invocation = w.invocation

\* Two invocations of one run have written their items, one of them more
\* than once.
OneWriterPerItemWitness ==
    /\ invs[1].items_path = invs[2].items_path
    /\ \E w \in exported : w.invocation = 1 /\ w.attempt = 2
    /\ \E w \in exported : w.invocation = 2
    /\ invs[1].state = "returned"
    /\ invs[2].state = "returned"

\* ====================================================== the earlier components
earlierVars ==
    <<pipelineVars, retryVars, catalogVars, tokenVars, templateVars, renderVars, indexVars, replayVars, loggingVars, transformVars>>

EarlierIdle ==
    /\ PipelineIdle
    /\ RetryIdle
    /\ CatalogIdle
    /\ TokenIdle
    /\ TemplatesIdle
    /\ RenderIdle
    /\ IndexIdle
    /\ ReplayIdle
    /\ LoggingIdle
    /\ TransformIdle

\* ====================================================== the listing of blobs
MaxTokens == 3

\* The pieces blob names and patterns are made of.
NameTokens == {"a", "/", "L2A_", ".tif", ".json"}

BlobNames == Seqs(NameTokens, MaxTokens) \ {<<>>}

\* "**/*.tif" and "L2A_*.json"
GlobTif == <<"*", "*", "/", "*", ".tif">>
GlobL2A == <<"L2A_", "*", ".json">>

\* re.compile(fnmatch.translate(pattern)).match(blob.name): the whole name
\* against the pattern, where "*" stands for any characters, "/" included.
RECURSIVE fnmatch(_, _)
fnmatch(blob_name, pat) ==
    IF pat = <<>> THEN blob_name = <<>>
    ELSE IF Head(pat) = "*"
    THEN \/ fnmatch(blob_name, Tail(pat))
         \/ blob_name # <<>> /\ fnmatch(Tail(blob_name), pat)
    ELSE /\ blob_name # <<>>
         /\ Head(blob_name) = Head(pat)
         /\ fnmatch(Tail(blob_name), Tail(pat))

GlobInit ==
    /\ blob_names \in {{n1, n2} : n1, n2 \in BlobNames}
    /\ glob_pattern \in {GlobTif, GlobL2A}
    /\ listed_blobs = [state |-> "ready", blobs |-> {}]
    /\ EarlierIdle
    /\ OtherGlobIdle

\* list_blobs(pattern=...): the blobs of the container whose name matches.
StorageListBlobs ==
    /\ listed_blobs.state = "ready"
    /\ \E ok \in BOOLEAN :
          listed_blobs' =
             IF ok
             THEN [state |-> "returned",
                   blobs |-> {n \in blob_names : fnmatch(n, glob_pattern)}]
             ELSE [state |-> "raised", blobs |-> {}]
    /\ UNCHANGED <<blob_names, glob_pattern>>
    /\ UNCHANGED <<earlierVars, otherGlobVars>>

GlobNext == StorageListBlobs

SpecGlob == GlobInit /\ [][GlobNext]_vars

\* The part of a name after its last "/".
RECURSIVE Basename(_)
Basename(blob_name) ==
    IF \E i \in DOMAIN blob_name : blob_name[i] = "/"
    THEN Basename(Tail(blob_name))
    ELSE blob_name

\* C31: "**/*.tif" lists exactly the blobs whose name ends in .tif, and
\* "L2A_*.json" lists only blobs whose base name begins with L2A_.
GlobCorrect ==
    listed_blobs.state = "returned" =>
        /\ glob_pattern = GlobTif =>
              listed_blobs.blobs = {n \in blob_names : n[Len(n)] = ".tif"}
        /\ glob_pattern = GlobL2A =>
              \A n \in listed_blobs.blobs :
                  Basename(n) # <<>> /\ Head(Basename(n)) = "L2A_"

\* ====================================================== concurrent ingestion sources
MaxEnsurers == 2

Ensurers == 1..MaxEnsurers

\* The pairs of hours the environment can configure: the defaults, and
\* pairs whose default does not exceed the minimum.
HourPairs ==
    {[min |-> 12, default |-> 24], [min |-> 24, default |-> 24], [min |-> 24, default |-> 12]}

\* The answers to GET /api/ingestion-sources: a list of records, or the
\* object {value: [...]}.
ListShapes == {"list", "object"}

\* A call that has not begun.
NoEnsurer(container_url) ==
    [state |-> "idle", target |-> container_url, error |-> "", listed |-> 0,
     cursor |-> 0, found |-> {}, sas |-> 0, began |-> 0, ended |-> 0]

Sent(c, method, path) == [caller |-> c, method |-> method, path |-> path]

\* The clock does not move over the calls; hours are counted from it.
EnsureInit ==
    /\ expiration_hours \in HourPairs
    /\ list_shape \in ListShapes
    /\ catalog_sources \in
          {<<>>} \cup {<<[containerUrl |-> "in", expiration |-> e]>> : e \in {1, 24, 48}}
    /\ ensurers \in [Ensurers -> {NoEnsurer(u) : u \in {"in", "out"}}]
    /\ traffic = <<>>
    /\ EarlierIdle
    /\ OtherEnsureIdle

\* get_ingestion_sources up to its first loop round: the list is read and
\* has to be a list.
GetIngestionSources(c) ==
    /\ ensurers[c].state = "idle"
    /\ traffic' = Append(traffic, Sent(c, "GET", "ingestion-sources"))
    /\ ensurers' = [ensurers EXCEPT ![c] =
          IF list_shape # "list"
          THEN [@ EXCEPT !.state = "raised", !.error = "ValueError",
                         !.began = Len(traffic) + 1, !.ended = Len(traffic) + 1]
          ELSE [@ EXCEPT !.state = "details", !.listed = Len(catalog_sources),
                         !.cursor = 1, !.began = Len(traffic) + 1]]
    /\ UNCHANGED <<expiration_hours, list_shape, catalog_sources>>
    /\ UNCHANGED <<earlierVars, otherEnsureVars>>

\* One round of the loop: the details of a listed source are read and
\* enter the map under the container URL.
GetSourceDetail(c) ==
    /\ ensurers[c].state = "details"
    /\ ensurers[c].cursor <= ensurers[c].listed
    /\ LET k == ensurers[c].cursor
           container_url == catalog_sources[k].containerUrl
       IN  /\ traffic' = Append(traffic, Sent(c, "GET", "ingestion-source"))
           /\ ensurers' = [ensurers EXCEPT
                 ![c].found = {f \in @ : f.containerUrl # container_url} \cup
                              {[containerUrl |-> container_url, id |-> k,
                                expiration |-> catalog_sources[k].expiration]},
                 ![c].cursor = k + 1]
    /\ UNCHANGED <<expiration_hours, list_shape, catalog_sources>>
    /\ UNCHANGED <<earlierVars, otherEnsureVars>>

\* Lines 323-368: with the map built, the source of the container is looked
\* up in it; a credential is minted when there is none or when it expires
\* within the minimum.
DecideSource(c) ==
    /\ ensurers[c].state = "details"
    /\ ensurers[c].cursor > ensurers[c].listed
    /\ LET mine == {f \in ensurers[c].found : f.containerUrl = ensurers[c].target}
           mint == \/ mine = {}
                   \/ \E f \in mine : expiration_hours.min >= f.expiration
       IN  /\ traffic' = IF mint THEN Append(traffic, Sent(c, "SAS", "container")) ELSE traffic
           /\ ensurers' = [ensurers EXCEPT ![c] =
                 IF mine = {}
                 THEN [@ EXCEPT !.state = "creating", !.sas = expiration_hours.default]
                 ELSE IF mint
                 THEN [@ EXCEPT !.state = "updating", !.sas = expiration_hours.default]
                 ELSE [@ EXCEPT !.state = "done", !.ended = Len(traffic)]]
    /\ UNCHANGED <<expiration_hours, list_shape, catalog_sources>>
    /\ UNCHANGED <<earlierVars, otherEnsureVars>>

\* create_ingestion_source: the catalog adds a record.
CreateIngestionSource(c) ==
    /\ ensurers[c].state = "creating"
    /\ traffic' = Append(traffic, Sent(c, "POST", "ingestion-sources"))
    /\ catalog_sources' = Append(catalog_sources,
          [containerUrl |-> ensurers[c].target, expiration |-> ensurers[c].sas])
    /\ ensurers' = [ensurers EXCEPT ![c].state = "done", ![c].ended = Len(traffic) + 1]
    /\ UNCHANGED <<expiration_hours, list_shape>>
    /\ UNCHANGED <<earlierVars, otherEnsureVars>>

\* update_ingestion_source: the catalog replaces the record of the id.
UpdateIngestionSource(c) ==
    /\ ensurers[c].state = "updating"
    /\ LET f == CHOOSE f \in ensurers[c].found : f.containerUrl = ensurers[c].target
       IN  catalog_sources' = [catalog_sources EXCEPT ![f.id].expiration = ensurers[c].sas]
    /\ traffic' = Append(traffic, Sent(c, "PUT", "ingestion-source"))
    /\ ensurers' = [ensurers EXCEPT ![c].state = "done", ![c].ended = Len(traffic) + 1]
    /\ UNCHANGED <<expiration_hours, list_shape>>
    /\ UNCHANGED <<earlierVars, otherEnsureVars>>

EnsureNext ==
    \/ \E c \in Ensurers : GetIngestionSources(c)
    \/ \E c \in Ensurers : GetSourceDetail(c)
    \/ \E c \in Ensurers : DecideSource(c)
    \/ \E c \in Ensurers : CreateIngestionSource(c)
    \/ \E c \in Ensurers : UpdateIngestionSource(c)

SpecEnsure == EnsureInit /\ [][EnsureNext]_vars

\* The requests of a call that change the sources, and its mints.
Changes(c) ==
    {k \in DOMAIN traffic :
        traffic[k].caller = c /\ traffic[k].method \in {"POST", "PUT", "SAS"}}

\* C33: a call for a container that begins after a call for the same
\* container has ended well posts nothing, puts nothing and mints nothing,
\* whatever the configured hours.
Idempotent ==
    \A c1, c2 \in Ensurers :
        (/\ ensurers[c1].state = "done"
         /\ ensurers[c2].state = "done"
         /\ ensurers[c1].target = ensurers[c2].target
         /\ ensurers[c1].ended < ensurers[c2].began) =>
            Changes(c2) = {}

\* C34: when the list of ingestion sources is answered with the object
\* {value: [...]}, get_ingestion_sources does not raise.
ListCompletes ==
    list_shape = "object" =>
        \A c \in Ensurers : ensurers[c].state # "raised"

\* C37: the catalog holds at most one ingestion source for a container URL.
OneSourcePerContainer ==
    \A i, j \in DOMAIN catalog_sources :
        catalog_sources[i].containerUrl = catalog_sources[j].containerUrl => i = j

\* ------------------------------------------------ the engine's registries
\* engine/filters.py, functions.py, tests.py and globals.py each hold one
\* dictionary of the module, filled while the module is imported; an
\* Environment copies them into its sandboxed environment when it is
\* constructed.  Only the names are kept here; one name stands for each kind.

MaxEnvironments == 2

BuiltinFilters == {"abs"}
BuiltinFunctions == {"range"}
BuiltinTests == {"defined"}

RegisteredFilters == {"bbox"}
RegisteredFunctions == {"now"}
RegisteredTests == {"contains"}
RegisteredGlobals == {"RE_NOFLAG"}

EXPECTED_VARS == {"scene_info"}

\* The names a caller adds to an instance.
CustomNames == {"custom"}

\* What the sandboxed environment of an instance exposes when it has been
\* given the names of the four dictionaries: functions and global variables
\* share its globals.
Exposes(filters, functions, tests, globals) ==
    [filters |-> BuiltinFilters \cup filters,
     globals |-> BuiltinFunctions \cup functions \cup globals,
     tests   |-> BuiltinTests \cup tests]

\* Environment(): the instance exposes what the dictionaries hold now.  (The
\* add_* calls of __init__ write each name back to the dictionary it was
\* read from, which changes nothing.)
NewEnvironmentRecord(maker) ==
    [by          |-> maker,
     constructed |-> Exposes(GeoTemplateFilters, GeoTemplateFunctions,
                             GeoTemplateTests, GeoTemplateGlobals),
     now         |-> Exposes(GeoTemplateFilters, GeoTemplateFunctions,
                             GeoTemplateTests, GeoTemplateGlobals)]

\* The instance exists and its maker handed it to a caller (the one of
\* validate_template is local to it).
InCallersHands(k) ==
    k \in DOMAIN environments /\ environments[k].by = "caller"

RegistryInit ==
    /\ RegistryIdle
    /\ EarlierIdle
    /\ OtherRegistryIdle

NewEnvironment ==
    /\ Len(environments) < MaxEnvironments
    /\ environments' = Append(environments, NewEnvironmentRecord("caller"))
    /\ UNCHANGED <<GeoTemplateFilters, GeoTemplateFunctions, GeoTemplateTests,
                   GeoTemplateGlobals>>
    /\ UNCHANGED <<earlierVars, otherRegistryVars>>

add_filter(k, name) ==
    /\ InCallersHands(k)
    /\ GeoTemplateFilters' = GeoTemplateFilters \cup {name}
    /\ environments' =
          [environments EXCEPT ![k].now.filters = @ \cup {name}]
    /\ UNCHANGED <<GeoTemplateFunctions, GeoTemplateTests, GeoTemplateGlobals>>
    /\ UNCHANGED <<earlierVars, otherRegistryVars>>

add_function(k, name) ==
    /\ InCallersHands(k)
    /\ GeoTemplateFunctions' = GeoTemplateFunctions \cup {name}
    /\ environments' =
          [environments EXCEPT ![k].now.globals = @ \cup {name}]
    /\ UNCHANGED <<GeoTemplateFilters, GeoTemplateTests, GeoTemplateGlobals>>
    /\ UNCHANGED <<earlierVars, otherRegistryVars>>

add_test(k, name) ==
    /\ InCallersHands(k)
    /\ GeoTemplateTests' = GeoTemplateTests \cup {name}
    /\ environments' =
          [environments EXCEPT ![k].now.tests = @ \cup {name}]
    /\ UNCHANGED <<GeoTemplateFilters, GeoTemplateFunctions, GeoTemplateGlobals>>
    /\ UNCHANGED <<earlierVars, otherRegistryVars>>

add_global_variable(k, name) ==
    /\ InCallersHands(k)
    /\ GeoTemplateGlobals' = GeoTemplateGlobals \cup {name}
    /\ environments' =
          [environments EXCEPT ![k].now.globals = @ \cup {name}]
    /\ UNCHANGED <<GeoTemplateFilters, GeoTemplateFunctions, GeoTemplateTests>>
    /\ UNCHANGED <<earlierVars, otherRegistryVars>>

\* validate_template(template): an Environment of its own, to which the
\* expected variables are added before the template is parsed.
validate_template ==
    /\ Len(environments) < MaxEnvironments
    /\ GeoTemplateGlobals' = GeoTemplateGlobals \cup EXPECTED_VARS
    /\ environments' =
          Append(environments,
                 [NewEnvironmentRecord("validate_template")
                     EXCEPT !.now.globals = @ \cup EXPECTED_VARS])
    /\ UNCHANGED <<GeoTemplateFilters, GeoTemplateFunctions, GeoTemplateTests>>
    /\ UNCHANGED <<earlierVars, otherRegistryVars>>

RegistryNext ==
    \/ NewEnvironment
    \/ validate_template
    \/ \E k \in 1..MaxEnvironments, name \in CustomNames :
          \/ add_filter(k, name)
          \/ add_function(k, name)
          \/ add_test(k, name)
          \/ add_global_variable(k, name)

SpecRegistry == RegistryInit /\ [][RegistryNext]_vars

\* C35: a newly constructed Environment exposes exactly the built-in names
\* and the registered GeoTemplate ones, whatever was done before to other
\* instances or by validate_template.
FreshEnvironment ==
    \A k \in DOMAIN environments :
        environments[k].constructed =
            Exposes(RegisteredFilters, RegisteredFunctions, RegisteredTests,
                    RegisteredGlobals)

\* --------------------------------------------- entering a storage scope
\* `async with StorageClient(...)`: __aenter__ calls ensure_container on a
\* writable client.  ensure_container awaits exists() and then, when the
\* answer was False, awaits create_container(); other coroutines and other
\* workers run between the two.  The service refuses to create a container
\* that exists (ResourceExistsError).

MaxEnterers == 3

Enterers == 1..MaxEnterers

NoEnterer(ro) ==
    [read_only |-> ro,
     state     |-> "new",     \* new, creating, entered, raised
     created   |-> FALSE]     \* whether this scope created the container

ContainerInit ==
    /\ container_present \in BOOLEAN
    /\ enterers \in [Enterers -> {NoEnterer(ro) : ro \in BOOLEAN}]
    /\ EarlierIdle
    /\ OtherContainerIdle

\* __aenter__ of a read-only client: nothing is ensured.
EnterReadOnly(s) ==
    /\ enterers[s].state = "new"
    /\ enterers[s].read_only
    /\ enterers' = [enterers EXCEPT ![s].state = "entered"]
    /\ UNCHANGED container_present
    /\ UNCHANGED <<earlierVars, otherContainerVars>>

\* ensure_container up to the answer of exists(): done when the container
\* is there, about to create it otherwise.
ContainerExists(s) ==
    /\ enterers[s].state = "new"
    /\ ~enterers[s].read_only
    /\ enterers' = [enterers EXCEPT ![s].state =
                       IF container_present THEN "entered" ELSE "creating"]
    /\ UNCHANGED container_present
    /\ UNCHANGED <<earlierVars, otherContainerVars>>

\* create_container(): creates the container, or raises when it is there
\* by now; the error leaves ensure_container and __aenter__.
CreateContainer(s) ==
    /\ enterers[s].state = "creating"
    /\ enterers' = [enterers EXCEPT
                       ![s].state = IF container_present THEN "raised"
                                    ELSE "entered",
                       ![s].created = ~container_present]
    /\ container_present' = TRUE
    /\ UNCHANGED <<earlierVars, otherContainerVars>>

ContainerNext ==
    \E s \in Enterers :
        \/ EnterReadOnly(s)
        \/ ContainerExists(s)
        \/ CreateContainer(s)

SpecContainer == ContainerInit /\ [][ContainerNext]_vars

\* C36: every writable scope completes ensure_container without error (and
\* the container exists once it has), also when several are entered at the
\* same time while the container is missing.
EnsureContainerCompletes ==
    \A s \in Enterers :
        /\ enterers[s].state # "raised"
        /\ (enterers[s].state = "entered" /\ ~enterers[s].read_only)
              => container_present

\* ------------------------------------------ logging scopes side by side
\* Activities are coroutines of one worker process: the logging_context of
\* one is open while another runs.  Every scope adds a QueueHandler with a
\* queue of its own to the one logger named 'stacforge', and starts a
\* listener that hands the records of that queue to an
\* AzureStorageTableHandler made for the scope's orchestration id, with a
\* ContextFilter for the scope's context.  A record logged on the logger
\* goes to every handler on it.

MaxOpenScopes == 2
MaxLogged == 2

OpenScopes == 1..MaxOpenScopes

OrchestrationIds == {"o1", "o2"}

NoScope(orchestration) ==
    [orchestration_id |-> orchestration,
     state            |-> "closed",     \* closed, open, left
     queue            |-> <<>>]

\* The context of scope k, as ContextFilter adds it to a record: the
\* activity's invocation id stands for the whole dictionary.
ContextOf(k) == k

\* AzureStorageTableHandler.emit of scope k on a record: the entity's key
\* is the handler's orchestration id and the hash of the record's content;
\* the filter of the handler has added the handler's context.
Entity(k, record) ==
    [PartitionKey |-> open_scopes[k].orchestration_id,
     RowKey       |-> record.number,
     ActivityId   |-> ContextOf(k),
     record       |-> record]

\* upsert_entity(mode=REPLACE): the row of the same key is replaced.
Upsert(rows, entity) ==
    {row \in rows : ~(/\ row.PartitionKey = entity.PartitionKey
                      /\ row.RowKey = entity.RowKey)} \cup {entity}

ScopesInit ==
    /\ open_scopes \in [OpenScopes -> {NoScope(o) : o \in OrchestrationIds}]
    /\ logger_handlers = {}
    /\ logged_records = {}
    /\ table_rows = {}
    /\ EarlierIdle
    /\ OtherScopesIdle

\* logging_context up to its yield.
ScopeEnter(k) ==
    /\ open_scopes[k].state = "closed"
    /\ open_scopes' = [open_scopes EXCEPT ![k].state = "open"]
    /\ logger_handlers' = logger_handlers \cup {k}
    /\ UNCHANGED <<logged_records, table_rows>>
    /\ UNCHANGED <<earlierVars, otherScopesVars>>

\* _logger.info(...) in the body of scope k: Logger.callHandlers gives the
\* record to every handler of the logger, each puts it on its queue.
LogInScope(k) ==
    /\ open_scopes[k].state = "open"
    /\ Cardinality(logged_records) < MaxLogged
    /\ LET record == [scope |-> k, number |-> Cardinality(logged_records) + 1]
       IN  /\ logged_records' = logged_records \cup {record}
           /\ open_scopes' =
                 [h \in OpenScopes |->
                     IF h \in logger_handlers
                     THEN [open_scopes[h] EXCEPT !.queue = Append(@, record)]
                     ELSE open_scopes[h]]
    /\ UNCHANGED <<logger_handlers, table_rows>>
    /\ UNCHANGED <<earlierVars, otherScopesVars>>

\* The listener thread of scope k takes a record of its queue and hands it
\* to the scope's table handler; the row is written unless the table
\* refuses.
ListenerEmit(k) ==
    /\ open_scopes[k].state = "open"
    /\ open_scopes[k].queue # <<>>
    /\ open_scopes' = [open_scopes EXCEPT ![k].queue = Tail(@)]
    /\ \E written \in BOOLEAN :
          table_rows' =
             IF written
             THEN Upsert(table_rows, Entity(k, Head(open_scopes[k].queue)))
             ELSE table_rows
    /\ UNCHANGED <<logger_handlers, logged_records>>
    /\ UNCHANGED <<earlierVars, otherScopesVars>>

\* The finally of logging_context: listener.stop() waits for the thread,
\* which has emptied the queue; the QueueHandler stays on the logger.
ScopeExit(k) ==
    /\ open_scopes[k].state = "open"
    /\ open_scopes[k].queue = <<>>
    /\ open_scopes' = [open_scopes EXCEPT ![k].state = "left"]
    /\ UNCHANGED <<logger_handlers, logged_records, table_rows>>
    /\ UNCHANGED <<earlierVars, otherScopesVars>>

ScopesNext ==
    \E k \in OpenScopes :
        \/ ScopeEnter(k)
        \/ LogInScope(k)
        \/ ListenerEmit(k)
        \/ ScopeExit(k)

SpecScopes == ScopesInit /\ [][ScopesNext]_vars

\* C38: every row of the table carries the orchestration id and the context
\* of the scope whose code logged the record, and no record is stored in
\* more than one row, also when scopes are open at the same time.
RowsOfOwnScope ==
    /\ \A row \in table_rows :
          /\ row.PartitionKey = open_scopes[row.record.scope].orchestration_id
          /\ row.ActivityId = ContextOf(row.record.scope)
    /\ \A row1, row2 \in table_rows :
          row1.record = row2.record => row1 = row2

\* ------------------------------------- the ingestion troubleshooter's run
\* tools/ingestion-troubleshooting/stac_ingestion_troubleshooter.py: main
\* makes sure a container and a collection exist, notes in cleanup_info
\* which of them it made, runs one ingestion and calls cleanup_artifacts.
\* The container and the collection are each one of
\*    "missing"   not there, never was
\*    "before"    there since before the run
\*    "made"      made by this run
\*    "deleted of before", "deleted of made"    deleted by this run.

Artifacts == {"missing", "before", "made", "deleted of before", "deleted of made"}

There(artifact) == artifact \in {"before", "made"}

Deleted(artifact) == IF There(artifact) THEN "deleted of " \o artifact ELSE artifact

\* check_container_exists and check_collection_exists: True when the
\* service says so; False when it says no and when the request failed.
check_exists(artifact, flaky) == There(artifact) /\ ~flaky

\* create_storage_container and create_stac_collection: True when created
\* and when the service answers that the thing exists already.
Created(artifact) == IF There(artifact) THEN artifact ELSE "made"

MainInit ==
    /\ args \in [keep_artifacts : BOOLEAN, container : BOOLEAN, collection : BOOLEAN]
    /\ world \in [container : {"missing", "before"},
                  collection : {"missing", "before"},
                  dummy : {"none"}]
    /\ cleanup_info = [container_created |-> FALSE, collection_created |-> FALSE,
                       dummy_created |-> FALSE]
    /\ main = [pc |-> "container", container_existed_before |-> FALSE,
               collection_existed_before |-> FALSE]
    /\ EarlierIdle
    /\ OtherCleanupIdle

\* main, lines 1254: container_existed_before.
check_container_exists ==
    /\ main.pc = "container"
    /\ \E flaky \in BOOLEAN :
          main' = [main EXCEPT !.pc = "ensure container",
                      !.container_existed_before =
                          check_exists(world.container, flaky)]
    /\ UNCHANGED <<args, world, cleanup_info>>
    /\ UNCHANGED <<earlierVars, otherCleanupVars>>

\* ensure_container_exists and the note of lines 1262-1263.  A container
\* the user named must be located; the default one is created when the check
\* does not find it.  sys.exit(1) is no Exception: nothing is cleaned up.
ensure_container_exists ==
    /\ main.pc = "ensure container"
    /\ \E flaky, refused \in BOOLEAN :
          LET located == check_exists(world.container, flaky)
              ensured == IF args.container THEN located
                         ELSE located \/ ~refused
          IN  /\ world' = [world EXCEPT !.container =
                              IF ~args.container /\ ~located /\ ~refused
                              THEN Created(@) ELSE @]
              /\ main' = [main EXCEPT !.pc =
                              IF ensured THEN "collection" ELSE "exit"]
              /\ cleanup_info' =
                    [cleanup_info EXCEPT !.container_created =
                        ensured /\ ~args.container
                                /\ ~main.container_existed_before]
    /\ UNCHANGED args
    /\ UNCHANGED <<earlierVars, otherCleanupVars>>

\* main, line 1272: collection_existed_before.
check_collection_exists ==
    /\ main.pc = "collection"
    /\ \E flaky \in BOOLEAN :
          main' = [main EXCEPT !.pc = "ensure collection",
                      !.collection_existed_before =
                          check_exists(world.collection, flaky)]
    /\ UNCHANGED <<args, world, cleanup_info>>
    /\ UNCHANGED <<earlierVars, otherCleanupVars>>

\* ensure_collection_exists and the note of lines 1280-1281; when it fails
\* main cleans up and exits.
ensure_collection_exists ==
    /\ main.pc = "ensure collection"
    /\ \E flaky, refused \in BOOLEAN :
          LET located == check_exists(world.collection, flaky)
              ensured == located \/ ~refused
          IN  /\ world' = [world EXCEPT !.collection =
                              IF ~located /\ ~refused THEN Created(@) ELSE @]
              /\ main' = [main EXCEPT !.pc =
                              IF ensured THEN "ingest" ELSE "cleanup"]
              /\ cleanup_info' =
                    [cleanup_info EXCEPT !.collection_created =
                        ensured /\ ~args.collection
                                /\ ~main.collection_existed_before]
    /\ UNCHANGED args
    /\ UNCHANGED <<earlierVars, otherCleanupVars>>

\* Lines 1283-1349: the credential, the dummy item and its blobs when no
\* blob of the user is used, the ingestion and its monitoring; an error of
\* any step leads to the cleanup as well.
IngestItem ==
    /\ main.pc = "ingest"
    /\ \E create_dummy \in BOOLEAN :
          /\ world' = [world EXCEPT !.dummy =
                          IF create_dummy THEN "stored" ELSE @]
          /\ cleanup_info' = [cleanup_info EXCEPT !.dummy_created = create_dummy]
    /\ main' = [main EXCEPT !.pc = "cleanup"]
    /\ UNCHANGED args
    /\ UNCHANGED <<earlierVars, otherCleanupVars>>

\* cleanup_artifacts: nothing with --keep-artifacts; otherwise the dummy
\* item, the collection when noted as created, and the container when noted
\* as created or else the dummy blobs.  Each deletion may fail.
cleanup_artifacts ==
    /\ main.pc = "cleanup"
    /\ main' = [main EXCEPT !.pc = "done"]
    /\ IF args.keep_artifacts
       THEN UNCHANGED world
       ELSE \E done \in [{"dummy", "collection", "container"} -> BOOLEAN] :
               world' =
                  [dummy |->
                      IF cleanup_info.dummy_created /\ done["dummy"]
                          /\ world.dummy = "stored"
                      THEN "deleted" ELSE world.dummy,
                   collection |->
                      IF cleanup_info.collection_created /\ done["collection"]
                      THEN Deleted(world.collection) ELSE world.collection,
                   container |->
                      IF cleanup_info.container_created /\ done["container"]
                      THEN Deleted(world.container) ELSE world.container]
    /\ UNCHANGED <<args, cleanup_info>>
    /\ UNCHANGED <<earlierVars, otherCleanupVars>>

MainNext ==
    \/ check_container_exists
    \/ ensure_container_exists
    \/ check_collection_exists
    \/ ensure_collection_exists
    \/ IngestItem
    \/ cleanup_artifacts

SpecCleanup == MainInit /\ [][MainNext]_vars

\* C39: the run deletes the container only if it made it and the collection
\* only if it made it, also when a check of existence failed; and with
\* --keep-artifacts it deletes nothing.
DataProtection ==
    /\ world.container # "deleted of before"
    /\ world.collection # "deleted of before"
    /\ args.keep_artifacts =>
          /\ world.container \in {"missing", "before", "made"}
          /\ world.collection \in {"missing", "before", "made"}
          /\ world.dummy # "deleted"

====
